---- MODULE Spec2Model ----
(***************************************************************************)
(* Consent Ledger Protocol (CNL-1.0): the dual hash chain of               *)
(* authorisations and actions, the consent matcher and the snapshot        *)
(* export/import of ConsentLedger.                                         *)
(*                                                                         *)
(* Representation of the TypeScript values:                                *)
(*   string            a TLA+ string; + is \o                              *)
(*   string | null     <<>> for null, <<s>> for the string s               *)
(*   string|undefined  <<>> for undefined (or an absent key), <<s>> else   *)
(*   Date.getTime()    a natural number of clock units; NaN is -1          *)
(*   sha256            a one-way, collision-free digest: the digest of a   *)
(*                     string is that string between "H(" and ")"          *)
(* One clock unit is twelve hours.                                         *)
(***************************************************************************)
EXTENDS Integers, Sequences, FiniteSets, TLC

\* ---------------------------------------------------------------- bounds
MaxAuths == 2
MaxActions == 2
MaxTime == 1

\* ------------------------------------------------------------- constants
GENESIS == "0"
schema == "CNL-1.0"

Null == <<>>
Some(s) == <<s>>
NaN == -1

\* s ?? d
OrElse(s, d) == IF s = Null THEN d ELSE s[1]

RECURSIVE Join(_, _)
\* Array.prototype.join
Join(seq, sep) ==
  IF seq = <<>> THEN ""
  ELSE IF Len(seq) = 1 THEN seq[1]
  ELSE seq[1] \o sep \o Join(Tail(seq), sep)

\* ------------------------------------------------------------------ time
\* Date.prototype.toISOString of the instant t (t clock units after epoch)
toISOString(t) ==
  LET day == 1 + (t \div 2)
      dd == IF day < 10 THEN "0" \o ToString(day) ELSE ToString(day)
      hh == IF t % 2 = 0 THEN "00" ELSE "12"
  IN "1970-01-" \o dd \o "T" \o hh \o ":00:00.000Z"

\* the instants a date string of the model can denote
Instants == 0..(MaxTime + 5)

\* new Date(s).getTime(): NaN for a string that is no date
DateParse(s) ==
  IF \E t \in Instants : toISOString(t) = s
  THEN CHOOSE t \in Instants : toISOString(t) = s
  ELSE NaN

\* ------------------------------------------------------------------ hash
sha256(data) == "H(" \o data \o ")"

chainHash(previousHash, payload) == sha256(previousHash \o payload)

\* the n-th identifier generateId hands out for a chain; randomBytes(16)
\* never repeats a value, within a chain or across the two chains
generateId(prefix, n) == prefix \o ToString(n)

constraintStr(c) == c.type \o ":" \o c.description \o ":" \o c.parameter

\* mutant: the payload leaves out revoked and revoked_at
authorisationPayloadNoRevocation(entry) ==
  LET constraintsStr ==
        Join([i \in 1..Len(entry.constraints) |-> constraintStr(entry.constraints[i])], "|")
  IN Join(<< entry.id,
             entry.timestamp,
             entry.principal_id,
             entry.agent_id,
             entry.scope,
             entry.description,
             constraintsStr,
             OrElse(entry.expires_at, "") >>, "\n")

authorisationPayload(entry) ==
  LET constraintsStr ==
        Join([i \in 1..Len(entry.constraints) |-> constraintStr(entry.constraints[i])], "|")
  IN Join(<< entry.id,
             entry.timestamp,
             entry.principal_id,
             entry.agent_id,
             entry.scope,
             entry.description,
             constraintsStr,
             OrElse(entry.expires_at, ""),
             IF entry.revoked THEN "true" ELSE "false",
             OrElse(entry.revoked_at, "") >>, "\n")

\* ----------------------------------------------------- string operations
\* The texts the matcher takes apart, each as the sequence of its characters
Text ==
  { << >>,
    << "5", "0", "0" >>,
    << "2" >>,
    << "1" >>,
    << "0" >>,
    << "a", "b", "c" >>,
    << "e", "u", "r", "o", "p", "e", ",", "e", "u" >>,
    << "0", "9", ":", "0", "0", "/", "1", "7", ":", "0", "0" >>,
    << "a", "l", "i", "c", "e", ",", " ", "b", "o", "b" >>,
    << "M", "a", "x" >>,
    << "H", "o", "u", "r", "s" >>,
    << "E", "u", "r", "o", "p", "e", " ", "o", "n", "l", "y" >>,
    << "f", "l", "i", "g", "h", "t" >>,
    << "A", "p", "p", "r", "o", "v", "a", "l" >>,
    << "P", "a", "y", "e", "e", "s" >>,
    << "T", "w", "i", "c", "e", " ", "a", " ", "d", "a", "y" >>,
    << "B", "o", "o", "k", " ", "f", "l", "i", "g", "h", "t", " ", "t", "o", " ", "P", "a", "r", "i", "s" >>,
    << "P", "a", "y", " ", "i", "n", "v", "o", "i", "c", "e" >>,
    << "B", "o", "o", "k", " ", "f", "l", "i", "g", "h", "t", "s" >>,
    << "U", "r", "g", "e", "n", "t" >>,
    << "O", "f", "f", "i", "c", "e", " ", "h", "o", "u", "r", "s" >>,
    << "e", "u", "r", "o", "p", "e" >>,
    << "a", "s", "i", "a" >>,
    << "a", "l", "i", "c", "e" >>,
    << "m", "a", "l", "l", "o", "r", "y" >>,
    << "t", "r", "u", "e" >>,
    << "6", "0", "0" >>,
    << "-", "5", "0", "0" >> }

\* the characters of the string s
Chars(s) == CHOOSE cs \in Text : Join(cs, "") = s

\* the string of the characters cs
StringOf(cs) == Join(cs, "")

UpperCase == << "A", "B", "C", "D", "E", "F", "G", "H", "I", "J", "K", "L", "M",
                "N", "O", "P", "Q", "R", "S", "T", "U", "V", "W", "X", "Y", "Z" >>
LowerCase == << "a", "b", "c", "d", "e", "f", "g", "h", "i", "j", "k", "l", "m",
                "n", "o", "p", "q", "r", "s", "t", "u", "v", "w", "x", "y", "z" >>

\* String.prototype.toLowerCase
toLowerCase(cs) ==
  [i \in 1..Len(cs) |->
     IF \E u \in 1..26 : UpperCase[u] = cs[i]
     THEN LowerCase[CHOOSE u \in 1..26 : UpperCase[u] = cs[i]]
     ELSE cs[i]]

\* String.prototype.includes
includes(hay, needle) ==
  \E i \in 1..(Len(hay) - Len(needle) + 1) :
    SubSeq(hay, i, i + Len(needle) - 1) = needle

RECURSIVE split(_, _)
\* String.prototype.split with a one-character separator
split(cs, sep) ==
  IF \E i \in 1..Len(cs) : cs[i] = sep
  THEN LET i == CHOOSE i \in 1..Len(cs) :
                  cs[i] = sep /\ \A j \in 1..(i-1) : cs[j] # sep
       IN << SubSeq(cs, 1, i - 1) >> \o split(SubSeq(cs, i + 1, Len(cs)), sep)
  ELSE << cs >>

RECURSIVE trim(_)
\* String.prototype.trim
trim(cs) ==
  IF cs # << >> /\ cs[1] = " " THEN trim(Tail(cs))
  ELSE IF cs # << >> /\ cs[Len(cs)] = " " THEN trim(SubSeq(cs, 1, Len(cs) - 1))
  ELSE cs

Digits == << "0", "1", "2", "3", "4", "5", "6", "7", "8", "9" >>

IsDigit(c) == \E d \in 1..10 : Digits[d] = c

DigitValue(c) == (CHOOSE d \in 1..10 : Digits[d] = c) - 1

RECURSIVE digitsValue(_, _)
\* the number the leading digits of cs denote, after the digits read so far
\* gave acc
digitsValue(cs, acc) ==
  IF cs # << >> /\ IsDigit(cs[1])
  THEN digitsValue(Tail(cs), 10 * acc + DigitValue(cs[1]))
  ELSE acc

\* parseFloat on the texts of the model (a sign and digits, no fraction, no
\* exponent): the number of the longest numeric prefix, null for NaN
parseFloat(cs) ==
  LET t == trim(cs)
  IN IF t # << >> /\ IsDigit(t[1]) THEN Some(digitsValue(t, 0))
     ELSE IF Len(t) >= 2 /\ t[1] \in {"-", "+"} /\ IsDigit(t[2])
     THEN Some((IF t[1] = "-" THEN 0 - 1 ELSE 1) * digitsValue(Tail(t), 0))
     ELSE Null

\* --------------------------------------------- action parameters (unknown)
\* a value of Record<string, unknown>, tagged with its typeof
Num(n) == [t |-> "number", n |-> n, s |-> "", b |-> FALSE, o |-> <<>>]
Str(s) == [t |-> "string", n |-> 0, s |-> s, b |-> FALSE, o |-> <<>>]
Bool(b) == [t |-> "boolean", n |-> 0, s |-> "", b |-> b, o |-> <<>>]
NullV == [t |-> "null", n |-> 0, s |-> "", b |-> FALSE, o |-> <<>>]
\* a nested object: members is a sequence of [k |-> key, v |-> string]
Obj(members) == [t |-> "object", n |-> 0, s |-> "", b |-> FALSE, o |-> members]

\* every parameter key of the model, in the order of Array.prototype.sort
KeyOrder ==
  << "amount", "approval_obtained", "approved", "category", "cost", "domain",
     "meta", "payee", "recipient", "to", "type", "value" >>

\* Object.keys(parameters).sort()
SortedKeys(parameters) == SelectSeq(KeyOrder, LAMBDA k : k \in DOMAIN parameters)

Quote(s) == "\"" \o s \o "\""

\* JSON.stringify(value, replacer) with an array replacer: the array is a
\* whitelist of property names applied to the objects of every depth, and it
\* fixes the order of the properties written
stringifyValue(v, replacer) ==
  CASE v.t = "number" -> ToString(v.n)
    [] v.t = "string" -> Quote(v.s)
    [] v.t = "boolean" -> (IF v.b THEN "true" ELSE "false")
    [] v.t = "null" -> "null"
    [] v.t = "object" ->
         LET member(k) ==
               LET m == CHOOSE m \in {v.o[i] : i \in 1..Len(v.o)} : m.k = k
               IN Quote(k) \o ":" \o Quote(m.v)
             kept == SelectSeq(replacer,
                       LAMBDA k : \E i \in 1..Len(v.o) : v.o[i].k = k)
         IN "{" \o Join([i \in 1..Len(kept) |-> member(kept[i])], ",") \o "}"

stringifyParameters(parameters, replacer) ==
  LET member(k) == Quote(k) \o ":" \o stringifyValue(parameters[k], replacer)
      kept == SelectSeq(replacer, LAMBDA k : k \in DOMAIN parameters)
  IN "{" \o Join([i \in 1..Len(kept) |-> member(kept[i])], ",") \o "}"

actionPayload(record) ==
  LET paramsStr == stringifyParameters(record.parameters,
                                       SortedKeys(record.parameters))
  IN Join(<< record.id,
             record.timestamp,
             record.agent_id,
             record.authorisation_id,
             record.action_type,
             record.description,
             paramsStr,
             OrElse(record.clearpath_trace_id, "") >>, "\n")

\* ----------------------------------------------------------------- state
VARIABLES
  principal_id,     \* ConsentLedger.principal_id
  authorisations,   \* the authorisation chain
  actions,          \* the action chain
  authById,         \* Map: authorisation id -> entry
  actionById,       \* Map: action id -> record
  now,              \* the clock new Date() reads
  last,             \* the last call: its name, its argument, whether it threw
  json,             \* the snapshot text toJSON returned, as edited since
  result            \* what the last checkConsent returned

vars == << principal_id, authorisations, actions, authById, actionById, now,
           last, json, result >>

ledgerVars == << principal_id, authorisations, actions, authById, actionById >>

EmptyMap == [k \in {} |-> k]

\* mutant: set keeps the value a key already has
MapSetIfAbsent(m, k, v) ==
  [x \in (DOMAIN m) \cup {k} |-> IF x \in DOMAIN m THEN m[x] ELSE v]

\* Map.prototype.set
MapSet(m, k, v) == [x \in (DOMAIN m) \cup {k} |-> IF x = k THEN v ELSE m[x]]

\* new Map(entries.map((a) => [a.id, a])): a later entry replaces an earlier
\* one of the same id
MapOf(entries) ==
  [k \in {entries[i].id : i \in 1..Len(entries)} |->
     LET i == CHOOSE i \in 1..Len(entries) :
                /\ entries[i].id = k
                /\ \A j \in (i+1)..Len(entries) : entries[j].id # k
     IN entries[i]]

Call(op, arg, threw) == [op |-> op, arg |-> arg, threw |-> threw]

\* ---------------------------------------------------------------- inputs
Constraint(type, description, parameter) ==
  [type |-> type, description |-> description, parameter |-> parameter]

\* arguments of authorise
AuthInputs ==
  { [principal_id |-> "user-1", agent_id |-> "agent-1", scope |-> "categorical",
     description |-> "Book flights",
     constraints |-> << Constraint("monetary_limit", "Max", "500") >>,
     expires_at |-> Some(toISOString(1))] }

\* arguments of recordAction, but for authorisation_id
ActionInputs ==
  { [agent_id |-> "agent-1", action_type |-> "book_flight",
     description |-> "Book flight to Paris",
     parameters |-> [amount |-> Num(300), domain |-> Str("europe")],
     clearpath_trace_id |-> Null],
    [agent_id |-> "agent-1", action_type |-> "pay",
     description |-> "Pay invoice",
     parameters |-> [amount |-> Num(600), meta |-> Obj(<< [k |-> "payee", v |-> "alice"] >>)],
     clearpath_trace_id |-> Some("trace-1")] }

\* the arguments the ledger of Spec is built from
SpecActionInputs == { a \in ActionInputs : a.action_type = "book_flight" }

UnknownId == "nonexistent-id"

\* ------------------------------------------------------------ operations
Init ==
  /\ principal_id = "user-1"
  /\ authorisations = << >>
  /\ actions = << >>
  /\ authById = EmptyMap
  /\ actionById = EmptyMap
  /\ now = 0
  /\ last = Call("new", "", FALSE)
  /\ json = Null
  /\ result = Null

\* time passes between calls
Tick ==
  /\ now < MaxTime
  /\ now' = now + 1
  /\ UNCHANGED << ledgerVars, last, json, result >>

\* mutant: every entry is linked to the genesis sentinel
authoriseEntryUnlinked(auths, entry, t) ==
  LET full == [id |-> generateId("a", Len(auths) + 1),
               timestamp |-> toISOString(t),
               principal_id |-> entry.principal_id,
               agent_id |-> entry.agent_id,
               scope |-> entry.scope,
               description |-> entry.description,
               constraints |-> entry.constraints,
               expires_at |-> entry.expires_at,
               revoked |-> FALSE,
               revoked_at |-> Null,
               previous_hash |-> GENESIS,
               hash |-> ""]
  IN [full EXCEPT !.hash = chainHash(GENESIS, authorisationPayload(full))]

\* the entry authorise(entry) builds at the instant t on the chain auths
authoriseEntry(auths, entry, t) ==
  LET id == generateId("a", Len(auths) + 1)
      previous_hash == IF Len(auths) = 0 THEN GENESIS ELSE auths[Len(auths)].hash
      full == [id |-> id,
               timestamp |-> toISOString(t),
               principal_id |-> entry.principal_id,
               agent_id |-> entry.agent_id,
               scope |-> entry.scope,
               description |-> entry.description,
               constraints |-> entry.constraints,
               expires_at |-> entry.expires_at,
               revoked |-> FALSE,
               revoked_at |-> Null,
               previous_hash |-> previous_hash,
               hash |-> ""]
  IN [full EXCEPT !.hash = chainHash(previous_hash, authorisationPayload(full))]

authorise(entry) ==
  /\ Len(authorisations) < MaxAuths
  /\ LET full == authoriseEntry(authorisations, entry, now)
     IN /\ authorisations' = Append(authorisations, full)
        /\ authById' = MapSet(authById, full.id, full)
        /\ last' = Call("authorise", full.id, FALSE)
  /\ UNCHANGED << principal_id, actions, actionById, now, json, result >>

\* mutant: revoke keeps the hash of the entry it replaces
revokedEntryStaleHash(auth, t) ==
  [auth EXCEPT !.revoked = TRUE, !.revoked_at = Some(toISOString(t))]

\* the entry revoke puts in the place of auth at the instant t
revokedEntry(auth, t) ==
  LET updated == [auth EXCEPT !.revoked = TRUE,
                              !.revoked_at = Some(toISOString(t)),
                              !.hash = ""]
  IN [updated EXCEPT !.hash = chainHash(auth.previous_hash, authorisationPayload(updated))]

\* Array.prototype.findIndex, 1-based; 0 when nothing is found
findIndex(entries, id) ==
  IF \E i \in 1..Len(entries) : entries[i].id = id
  THEN CHOOSE i \in 1..Len(entries) :
         /\ entries[i].id = id
         /\ \A j \in 1..(i-1) : entries[j].id # id
  ELSE 0

\* mutant: the revoked entry is taken out and appended to the chain
revokedChainReappended(auths, byId, authorisation_id, t) ==
  LET idx == findIndex(auths, authorisation_id)
  IN Append(SubSeq(auths, 1, idx - 1) \o SubSeq(auths, idx + 1, Len(auths)),
            revokedEntry(byId[authorisation_id], t))

\* the chain after revoke replaced the entry of authorisation_id
revokedChain(auths, byId, authorisation_id, t) ==
  LET idx == findIndex(auths, authorisation_id)
  IN [auths EXCEPT ![idx] = revokedEntry(byId[authorisation_id], t)]

\* mutant: revoke of a revoked authorisation revokes it again
revokeAgain(authorisation_id) ==
  IF authorisation_id \notin DOMAIN authById
  THEN /\ last' = Call("revoke", authorisation_id, TRUE)
       /\ UNCHANGED << ledgerVars, now, json, result >>
  ELSE /\ authorisations' = revokedChain(authorisations, authById, authorisation_id, now)
       /\ authById' = MapSet(authById, authorisation_id,
                             revokedEntry(authById[authorisation_id], now))
       /\ last' = Call("revoke", authorisation_id, FALSE)
       /\ UNCHANGED << principal_id, actions, actionById, now, json, result >>

\* mutant: revoke of an id the index does not have returns quietly
revokeMissingIgnored(authorisation_id) ==
  IF authorisation_id \notin DOMAIN authById
  THEN /\ last' = Call("revoke", authorisation_id, FALSE)
       /\ UNCHANGED << ledgerVars, now, json, result >>
  ELSE IF authById[authorisation_id].revoked
  THEN /\ last' = Call("revoke", authorisation_id, FALSE)
       /\ UNCHANGED << ledgerVars, now, json, result >>
  ELSE /\ authorisations' = revokedChain(authorisations, authById, authorisation_id, now)
       /\ authById' = MapSet(authById, authorisation_id,
                             revokedEntry(authById[authorisation_id], now))
       /\ last' = Call("revoke", authorisation_id, FALSE)
       /\ UNCHANGED << principal_id, actions, actionById, now, json, result >>

revoke(authorisation_id) ==
  IF authorisation_id \notin DOMAIN authById
  THEN /\ last' = Call("revoke", authorisation_id, TRUE)
       /\ UNCHANGED << ledgerVars, now, json, result >>
  ELSE IF authById[authorisation_id].revoked
  THEN /\ last' = Call("revoke", authorisation_id, FALSE)
       /\ UNCHANGED << ledgerVars, now, json, result >>
  ELSE /\ authorisations' = revokedChain(authorisations, authById, authorisation_id, now)
       /\ authById' = MapSet(authById, authorisation_id,
                             revokedEntry(authById[authorisation_id], now))
       /\ last' = Call("revoke", authorisation_id, FALSE)
       /\ UNCHANGED << principal_id, actions, actionById, now, json, result >>

\* mutant: an authorisation is still active at the instant of its expiry
getActiveAuthorisationsInclusive(auths, t) ==
  SelectSeq(auths,
            LAMBDA a : /\ ~a.revoked
                       /\ \/ a.expires_at = Null
                          \/ a.expires_at = Some("")
                          \/ /\ DateParse(a.expires_at[1]) # NaN
                             /\ DateParse(a.expires_at[1]) >= t)

\* getActiveAuthorisations() called at the instant t on the chain auths
getActiveAuthorisations(auths, t) ==
  SelectSeq(auths,
            LAMBDA a : /\ ~a.revoked
                       /\ \/ a.expires_at = Null
                          \/ a.expires_at = Some("")
                          \/ /\ DateParse(a.expires_at[1]) # NaN
                             /\ DateParse(a.expires_at[1]) > t)

\* the record recordAction(action) builds at the instant t on the chain acts
actionRecord(acts, action, t) ==
  LET id == generateId("x", Len(acts) + 1)
      previous_hash == IF Len(acts) = 0 THEN GENESIS ELSE acts[Len(acts)].hash
      full == [id |-> id,
               timestamp |-> toISOString(t),
               agent_id |-> action.agent_id,
               authorisation_id |-> action.authorisation_id,
               action_type |-> action.action_type,
               description |-> action.description,
               parameters |-> action.parameters,
               clearpath_trace_id |-> action.clearpath_trace_id,
               previous_hash |-> previous_hash,
               hash |-> ""]
  IN [full EXCEPT !.hash = chainHash(previous_hash, actionPayload(full))]

\* mutant: recordAction looks the authorisation up and throws without it
recordActionLookedUp(action) ==
  /\ Len(actions) < MaxActions
  /\ IF action.authorisation_id \notin DOMAIN authById
     THEN /\ last' = Call("recordAction", action.authorisation_id, TRUE)
          /\ UNCHANGED << ledgerVars, now, json, result >>
     ELSE LET full == actionRecord(actions, action, now)
          IN /\ actions' = Append(actions, full)
             /\ actionById' = MapSet(actionById, full.id, full)
             /\ last' = Call("recordAction", full.id, FALSE)
             /\ UNCHANGED << principal_id, authorisations, authById, now, json, result >>

recordAction(action) ==
  /\ Len(actions) < MaxActions
  /\ LET full == actionRecord(actions, action, now)
     IN /\ actions' = Append(actions, full)
        /\ actionById' = MapSet(actionById, full.id, full)
        /\ last' = Call("recordAction", full.id, FALSE)
  /\ UNCHANGED << principal_id, authorisations, authById, now, json, result >>

\* verify(): the walk over both chains
RECURSIVE chainOk(_, _, _, _)
\* the walk from entry i on, prev being the hash expected as previous_hash;
\* payloads[i] is the payload of chain[i]
chainOk(chain, payloads, i, prev) ==
  IF i > Len(chain) THEN TRUE
  ELSE LET a == chain[i]
           expected == chainHash(a.previous_hash, payloads[i])
       IN /\ a.previous_hash = prev
          /\ a.hash = expected
          /\ chainOk(chain, payloads, i + 1, a.hash)

verifyOf(auths, acts) ==
  LET authOk == chainOk(auths, [i \in 1..Len(auths) |-> authorisationPayload(auths[i])],
                        1, GENESIS)
      actionOk == chainOk(acts, [i \in 1..Len(acts) |-> actionPayload(acts[i])],
                          1, GENESIS)
  IN [valid |-> authOk /\ actionOk,
      authorisations_checked |-> Len(auths),
      actions_checked |-> Len(acts)]

verify == verifyOf(authorisations, actions)

\* -------------------------------------------------------- snapshot as JSON
\* A JSON text is modelled by the value it denotes: a string, a number, a
\* boolean, null, an array (items: values) or an object (items: members
\* [k |-> key, v |-> value] in the order written).
JString(s) == [j |-> "string", s |-> s, n |-> 0, b |-> FALSE, items |-> <<>>]
JNumber(n) == [j |-> "number", s |-> "", n |-> n, b |-> FALSE, items |-> <<>>]
JBool(b) == [j |-> "boolean", s |-> "", n |-> 0, b |-> b, items |-> <<>>]
JNull == [j |-> "null", s |-> "", n |-> 0, b |-> FALSE, items |-> <<>>]
JArray(items) == [j |-> "array", s |-> "", n |-> 0, b |-> FALSE, items |-> items]
JObject(members) == [j |-> "object", s |-> "", n |-> 0, b |-> FALSE, items |-> members]
\* what reading a property that the object does not have yields
JUndefined == [j |-> "undefined", s |-> "", n |-> 0, b |-> FALSE, items |-> <<>>]

Member(k, v) == [k |-> k, v |-> v]

\* JSON.stringify of a string | null property
jsonOfNullable(o) == IF o = Null THEN JNull ELSE JString(o[1])

jsonOfConstraint(c) ==
  JObject(<< Member("type", JString(c.type)),
             Member("description", JString(c.description)),
             Member("parameter", JString(c.parameter)) >>)

jsonOfAuthorisation(a) ==
  JObject(<< Member("principal_id", JString(a.principal_id)),
             Member("agent_id", JString(a.agent_id)),
             Member("scope", JString(a.scope)),
             Member("description", JString(a.description)),
             Member("constraints",
                    JArray([i \in 1..Len(a.constraints) |->
                              jsonOfConstraint(a.constraints[i])])),
             Member("expires_at", jsonOfNullable(a.expires_at)),
             Member("id", JString(a.id)),
             Member("timestamp", JString(a.timestamp)),
             Member("revoked", JBool(a.revoked)),
             Member("revoked_at", jsonOfNullable(a.revoked_at)),
             Member("previous_hash", JString(a.previous_hash)),
             Member("hash", JString(a.hash)) >>)

jsonOfValue(v) ==
  CASE v.t = "number" -> JNumber(v.n)
    [] v.t = "string" -> JString(v.s)
    [] v.t = "boolean" -> JBool(v.b)
    [] v.t = "null" -> JNull
    [] v.t = "object" ->
         JObject([i \in 1..Len(v.o) |-> Member(v.o[i].k, JString(v.o[i].v))])

jsonOfParameters(parameters) ==
  LET keys == SortedKeys(parameters)
  IN JObject([i \in 1..Len(keys) |-> Member(keys[i], jsonOfValue(parameters[keys[i]]))])

\* a property whose value is undefined is not written
jsonOfAction(r) ==
  JObject(<< Member("agent_id", JString(r.agent_id)),
             Member("authorisation_id", JString(r.authorisation_id)),
             Member("action_type", JString(r.action_type)),
             Member("description", JString(r.description)),
             Member("parameters", jsonOfParameters(r.parameters)) >>
          \o (IF r.clearpath_trace_id = Null THEN << >>
              ELSE << Member("clearpath_trace_id", JString(r.clearpath_trace_id[1])) >>)
          \o << Member("id", JString(r.id)),
                Member("timestamp", JString(r.timestamp)),
                Member("previous_hash", JString(r.previous_hash)),
                Member("hash", JString(r.hash)) >>)

\* toJSON() of the ledger (principal, auths, acts)
toJSONOf(principal, auths, acts) ==
  JObject(<< Member("schema", JString(schema)),
             Member("principal_id", JString(principal)),
             Member("authorisations", 
                    JArray([i \in 1..Len(auths) |-> jsonOfAuthorisation(auths[i])])),
             Member("actions", 
                    JArray([i \in 1..Len(acts) |-> jsonOfAction(acts[i])])) >>)

\* obj[k] of a parsed object: the last member written under k wins
Get(obj, k) ==
  IF \E i \in 1..Len(obj.items) : obj.items[i].k = k
  THEN LET i == CHOOSE i \in 1..Len(obj.items) :
                  /\ obj.items[i].k = k
                  /\ \A m \in (i+1)..Len(obj.items) : obj.items[m].k # k
       IN obj.items[i].v
  ELSE JUndefined

\* the string | null (or string | undefined) a parsed value is
nullableOf(v) == IF v.j = "string" THEN Some(v.s) ELSE Null

constraintOfJson(o) ==
  [type |-> Get(o, "type").s,
   description |-> Get(o, "description").s,
   parameter |-> Get(o, "parameter").s]

authorisationOfJson(o) ==
  [id |-> Get(o, "id").s,
   timestamp |-> Get(o, "timestamp").s,
   principal_id |-> Get(o, "principal_id").s,
   agent_id |-> Get(o, "agent_id").s,
   scope |-> Get(o, "scope").s,
   description |-> Get(o, "description").s,
   constraints |-> [i \in 1..Len(Get(o, "constraints").items) |->
                      constraintOfJson(Get(o, "constraints").items[i])],
   expires_at |-> nullableOf(Get(o, "expires_at")),
   revoked |-> Get(o, "revoked").b,
   revoked_at |-> nullableOf(Get(o, "revoked_at")),
   previous_hash |-> Get(o, "previous_hash").s,
   hash |-> Get(o, "hash").s]

valueOfJson(v) ==
  CASE v.j = "number" -> Num(v.n)
    [] v.j = "string" -> Str(v.s)
    [] v.j = "boolean" -> Bool(v.b)
    [] v.j = "null" -> NullV
    [] v.j = "object" ->
         Obj([i \in 1..Len(v.items) |-> [k |-> v.items[i].k, v |-> v.items[i].v.s]])

parametersOfJson(o) ==
  [k \in {o.items[i].k : i \in 1..Len(o.items)} |-> valueOfJson(Get(o, k))]

\* mutant: the import keeps the known text fields only and drops the trace
actionOfJsonNoTrace(o) ==
  [id |-> Get(o, "id").s,
   timestamp |-> Get(o, "timestamp").s,
   agent_id |-> Get(o, "agent_id").s,
   authorisation_id |-> Get(o, "authorisation_id").s,
   action_type |-> Get(o, "action_type").s,
   description |-> Get(o, "description").s,
   parameters |-> parametersOfJson(Get(o, "parameters")),
   clearpath_trace_id |-> Null,
   previous_hash |-> Get(o, "previous_hash").s,
   hash |-> Get(o, "hash").s]

actionOfJson(o) ==
  [id |-> Get(o, "id").s,
   timestamp |-> Get(o, "timestamp").s,
   agent_id |-> Get(o, "agent_id").s,
   authorisation_id |-> Get(o, "authorisation_id").s,
   action_type |-> Get(o, "action_type").s,
   description |-> Get(o, "description").s,
   parameters |-> parametersOfJson(Get(o, "parameters")),
   clearpath_trace_id |-> nullableOf(Get(o, "clearpath_trace_id")),
   previous_hash |-> Get(o, "previous_hash").s,
   hash |-> Get(o, "hash").s]

\* mutant: the import never looks at the schema tag
schemaNeverChecked(doc) == FALSE

\* fromJSON(json) throws
schemaMismatch(doc) == Get(doc, "schema") # JString(schema)

\* the ledger fromJSON(json) returns when it does not throw
ledgerOfJson(doc) ==
  LET auths == [i \in 1..Len(Get(doc, "authorisations").items) |->
                  authorisationOfJson(Get(doc, "authorisations").items[i])]
      acts == [i \in 1..Len(Get(doc, "actions").items) |->
                 actionOfJson(Get(doc, "actions").items[i])]
  IN [principal_id |-> Get(doc, "principal_id").s,
      authorisations |-> auths,
      actions |-> acts,
      authById |-> MapOf(auths),
      actionById |-> MapOf(acts)]

toJSON ==
  /\ json = Null
  /\ json' = Some(toJSONOf(principal_id, authorisations, actions))
  /\ last' = Call("toJSON", "", FALSE)
  /\ UNCHANGED << ledgerVars, now, result >>

fromJSON ==
  /\ json # Null
  /\ IF schemaMismatch(json[1])
     THEN /\ last' = Call("fromJSON", "", TRUE)
          /\ UNCHANGED << ledgerVars, now, json, result >>
     ELSE LET L == ledgerOfJson(json[1])
          IN /\ principal_id' = L.principal_id
             /\ authorisations' = L.authorisations
             /\ actions' = L.actions
             /\ authById' = L.authById
             /\ actionById' = L.actionById
             /\ last' = Call("fromJSON", "", FALSE)
             /\ UNCHANGED << now, json, result >>

\* ------------------------------------------- edits of an exported snapshot
\* obj with the property k set to v
WithMember(obj, k, v) ==
  IF \E i \in 1..Len(obj.items) : obj.items[i].k = k
  THEN JObject([i \in 1..Len(obj.items) |->
                  IF obj.items[i].k = k THEN Member(k, v) ELSE obj.items[i]])
  ELSE JObject(Append(obj.items, Member(k, v)))

\* the snapshot doc with the property k of entry i of a chain set to v
WithEntryMember(doc, chain, i, k, v) ==
  LET entries == Get(doc, chain).items
  IN WithMember(doc, chain,
                JArray([entries EXCEPT ![i] = WithMember(entries[i], k, v)]))

\* the snapshot doc with the entries i and i+1 of a chain exchanged
WithEntriesSwapped(doc, chain, i) ==
  LET entries == Get(doc, chain).items
  IN WithMember(doc, chain,
                JArray([entries EXCEPT ![i] = entries[i+1], ![i+1] = entries[i]]))

Chains == {"authorisations", "actions"}

\* the properties of an entry other than hash and previous_hash
ContentKeys(chain) ==
  IF chain = "authorisations"
  THEN {"id", "timestamp", "principal_id", "agent_id", "scope", "description",
        "constraints", "expires_at", "revoked", "revoked_at"}
  ELSE {"id", "timestamp", "agent_id", "authorisation_id", "action_type",
        "description", "parameters", "clearpath_trace_id"}

\* the values an edit writes into a property
Replacements(chain, k) ==
  CASE k = "id" -> {JString("a1"), JString("x1"), JString("f00d")}
    [] k = "timestamp" -> {JString(toISOString(t)) : t \in 0..1}
    [] k = "principal_id" -> {JString("user-2")}
    [] k = "agent_id" -> {JString("agent-2")}
    [] k = "scope" -> {JString("standing"), JString("emergency")}
    [] k = "description" -> {JString("TAMPERED")}
    [] k = "constraints" ->
         { JArray(<< >>),
           JArray(<< jsonOfConstraint(Constraint("time_window", "Hours", "00:00/23:59")) >>),
           JArray(<< jsonOfConstraint(Constraint("time_window", "Hours:09", "00/17:00")) >>) }
    [] k = "expires_at" -> {JNull, JString(""), JString(toISOString(1))}
    [] k = "revoked" -> {JBool(TRUE), JBool(FALSE)}
    [] k = "revoked_at" -> {JNull, JString(""), JString(toISOString(1))}
    [] k = "authorisation_id" -> {JString("a1"), JString("a2"), JString(UnknownId)}
    [] k = "action_type" -> {JString("refund")}
    [] k = "parameters" ->
         { JObject(<< >>),
           JObject(<< Member("amount", JNumber(1)),
                      Member("domain", JString("europe")) >>),
           JObject(<< Member("amount", JNumber(600)),
                      Member("meta", JObject(<< Member("payee", JString("mallory")) >>)) >>) }
    [] k = "clearpath_trace_id" -> {JString(""), JString("trace-2")}

\* someone rewrites one property of one entry of the exported text
EditEntry(chain, i, k, v) ==
  /\ json # Null
  /\ last.op = "toJSON"
  /\ i \in 1..Len(Get(json[1], chain).items)
  /\ Get(Get(json[1], chain).items[i], k) # v
  /\ json' = Some(WithEntryMember(json[1], chain, i, k, v))
  /\ last' = Call("edit", k, FALSE)
  /\ UNCHANGED << ledgerVars, now, result >>

\* someone exchanges two neighbouring entries of the exported text
SwapEntries(chain, i) ==
  /\ json # Null
  /\ last.op = "toJSON"
  /\ i \in 1..(Len(Get(json[1], chain).items) - 1)
  /\ json' = Some(WithEntriesSwapped(json[1], chain, i))
  /\ last' = Call("edit", "order", FALSE)
  /\ UNCHANGED << ledgerVars, now, result >>

SchemaTags == {"CNL-1.1", "cnl-1.0", ""}

\* someone rewrites the schema tag of the exported text
EditSchema(tag) ==
  /\ json # Null
  /\ last.op = "toJSON"
  /\ json' = Some(WithMember(json[1], "schema", JString(tag)))
  /\ last' = Call("edit", "schema", FALSE)
  /\ UNCHANGED << ledgerVars, now, result >>

\* arguments of authorise for the ledgers that are exported
IOAuthInputs ==
  { [principal_id |-> "user-1", agent_id |-> "agent-1", scope |-> "standing",
     description |-> "Office hours",
     constraints |-> << Constraint("time_window", "Hours", "09:00/17:00") >>,
     expires_at |-> Null] }

\* --------------------------------------------------------------- matcher
\* what reading a key that parameters does not have yields
Undefined == [t |-> "undefined", n |-> 0, s |-> "", b |-> FALSE, o |-> <<>>]

\* parameters[k]
Param(parameters, k) == IF k \in DOMAIN parameters THEN parameters[k] ELSE Undefined

RECURSIVE firstDefined(_, _)
\* parameters[k1] ?? parameters[k2] ?? ...
firstDefined(parameters, keys) ==
  IF Len(keys) = 1 THEN Param(parameters, keys[1])
  ELSE IF Param(parameters, keys[1]).t \in {"undefined", "null"}
  THEN firstDefined(parameters, Tail(keys))
  ELSE Param(parameters, keys[1])

\* String(value), as the characters of the result
stringOfValue(v) ==
  CASE v.t = "number" -> Chars(ToString(v.n))
    [] v.t = "string" -> Chars(v.s)
    [] v.t = "boolean" -> Chars(IF v.b THEN "true" ELSE "false")
    [] v.t = "object" -> Chars("[object Object]")

\* parseNumber: <<n>> for a number, <<>> for null
parseNumber(v) ==
  IF v.t = "number" THEN Some(v.n)
  ELSE IF v.t = "string" THEN parseFloat(Chars(v.s))
  ELSE Null

\* a ConsentViolation; the signs U+2264 and U+2013 of the expected texts are
\* written <= and -
Violation(constraint_type, expected, actual, severity, description) ==
  [constraint_type |-> constraint_type, expected |-> expected, actual |-> actual,
   severity |-> severity, description |-> description]

\* mutant: an amount equal to the limit is a violation
checkMonetaryLimitInclusive(constraint, parameters) ==
  LET limit == parseNumber(Str(constraint.parameter))
      amount == parseNumber(firstDefined(parameters, << "amount", "value", "cost" >>))
  IN IF limit = Null THEN Null
     ELSE IF amount = Null THEN Null
     ELSE IF amount[1] >= limit[1]
     THEN Some(Violation("monetary_limit",
                         "<= " \o constraint.parameter,
                         ToString(amount[1]),
                         IF 2 * amount[1] > 3 * limit[1] THEN "critical" ELSE "major",
                         constraint.description))
     ELSE Null

\* each check* evaluator returns <<violation>> or <<>> for null
checkMonetaryLimit(constraint, parameters) ==
  LET limit == parseNumber(Str(constraint.parameter))
      amount == parseNumber(firstDefined(parameters, << "amount", "value", "cost" >>))
  IN IF limit = Null THEN Null
     ELSE IF amount = Null THEN Null
     ELSE IF amount[1] > limit[1]
     THEN Some(Violation("monetary_limit",
                         "<= " \o constraint.parameter,
                         ToString(amount[1]),
                         IF 2 * amount[1] > 3 * limit[1] THEN "critical" ELSE "major",
                         constraint.description))
     ELSE Null

checkDomainRestriction(constraint, parameters) ==
  LET tokens == split(toLowerCase(Chars(constraint.parameter)), ",")
      allowed == [i \in 1..Len(tokens) |-> trim(tokens[i])]
      raw == firstDefined(parameters, << "domain", "category", "type" >>)
      domain == IF raw.t \in {"undefined", "null"} THEN << >>
                ELSE toLowerCase(stringOfValue(raw))
      inDomain == \E i \in 1..Len(allowed) :
                    includes(domain, allowed[i]) \/ includes(allowed[i], domain)
  IN IF domain = << >> THEN Null
     ELSE IF ~inDomain
     THEN Some(Violation("domain_restriction",
                         Join([i \in 1..Len(allowed) |-> StringOf(allowed[i])], ", "),
                         StringOf(domain),
                         "major",
                         constraint.description))
     ELSE Null

checkTimeWindow(constraint, actionTimestamp) ==
  LET pieces == split(Chars(constraint.parameter), "/")
      parts == [i \in 1..Len(pieces) |-> trim(pieces[i])]
      start == parts[1]
      end == IF Len(parts) >= 2 THEN parts[2] ELSE << >>
      t == DateParse(actionTimestamp)
      startDate == DateParse(StringOf(start))
      endDate == DateParse(StringOf(end))
  IN IF start = << >> \/ end = << >> THEN Null
     ELSE IF startDate # NaN /\ endDate # NaN
             /\ ((t # NaN /\ t < startDate) \/ (t # NaN /\ t > endDate))
     THEN Some(Violation("time_window",
                         StringOf(start) \o " - " \o StringOf(end),
                         actionTimestamp,
                         "major",
                         constraint.description))
     ELSE Null

checkApprovalRequired(constraint, parameters) ==
  LET approved == firstDefined(parameters, << "approval_obtained", "approved" >>)
  IN IF approved # Bool(TRUE) /\ approved # Str("true")
     THEN Some(Violation("approval_required",
                         "approval obtained",
                         IF approved.t \in {"undefined", "null"} THEN "none"
                         ELSE StringOf(stringOfValue(approved)),
                         "major",
                         constraint.description))
     ELSE Null

checkRecipientRestriction(constraint, parameters) ==
  LET tokens == split(Chars(constraint.parameter), ",")
      allowed == [i \in 1..Len(tokens) |-> toLowerCase(trim(tokens[i]))]
      raw == firstDefined(parameters, << "recipient", "to", "payee" >>)
      recipient == IF raw.t \in {"undefined", "null"} THEN << >>
                   ELSE toLowerCase(stringOfValue(raw))
      allowedMatch == \E i \in 1..Len(allowed) :
                        includes(recipient, allowed[i]) \/ includes(allowed[i], recipient)
  IN IF recipient = << >> THEN Null
     ELSE IF ~allowedMatch
     THEN Some(Violation("recipient_restriction",
                         Join([i \in 1..Len(allowed) |-> StringOf(allowed[i])], ", "),
                         StringOf(recipient),
                         "critical",
                         constraint.description))
     ELSE Null

\* context: [actionCountForAuthInPeriod, limit], each <<n>> or <<>> (undefined)
checkFrequencyLimit(constraint, parameters, context) ==
  LET limit == IF context.limit # Null THEN context.limit
               ELSE parseNumber(Str(constraint.parameter))
      count == IF context.actionCountForAuthInPeriod # Null
               THEN context.actionCountForAuthInPeriod[1] ELSE 0
  IN IF limit = Null THEN Null
     ELSE IF count > limit[1]
     THEN Some(Violation("frequency_limit",
                         "<= " \o ToString(limit[1]) \o " in period",
                         ToString(count),
                         IF count > limit[1] * 2 THEN "critical" ELSE "major",
                         constraint.description))
     ELSE Null

checkCustom(constraint, action) ==
  LET descMatch == includes(toLowerCase(Chars(action.description)),
                            toLowerCase(Chars(constraint.description)))
  IN IF ~descMatch
     THEN Some(Violation("custom",
                         constraint.description,
                         action.description,
                         "minor",
                         constraint.description))
     ELSE Null

\* the body of the constraint loop for one constraint
checkConstraint(constraint, authorisation, action, context) ==
  CASE constraint.type = "monetary_limit" ->
         checkMonetaryLimit(constraint, action.parameters)
    [] constraint.type = "domain_restriction" ->
         checkDomainRestriction(constraint, action.parameters)
    [] constraint.type = "time_window" ->
         checkTimeWindow(constraint, action.timestamp)
    [] constraint.type = "approval_required" ->
         checkApprovalRequired(constraint, action.parameters)
    [] constraint.type = "recipient_restriction" ->
         checkRecipientRestriction(constraint, action.parameters)
    [] constraint.type = "frequency_limit" ->
         LET count == IF authorisation.id \in DOMAIN context
                      THEN Some(context[authorisation.id]) ELSE Null
             limit == parseNumber(Str(constraint.parameter))
         IN checkFrequencyLimit(constraint, action.parameters,
                                [actionCountForAuthInPeriod |-> count, limit |-> limit])
    [] constraint.type = "custom" ->
         checkCustom(constraint, action)
    [] OTHER -> Null

RECURSIVE constraintViolationsShortCircuit(_, _, _, _)
\* mutant: the loop over constraints stops at the first violation
constraintViolationsShortCircuit(constraints, authorisation, action, context) ==
  IF constraints = << >> THEN << >>
  ELSE IF checkConstraint(constraints[1], authorisation, action, context) # Null
  THEN checkConstraint(constraints[1], authorisation, action, context)
  ELSE constraintViolationsShortCircuit(Tail(constraints), authorisation, action, context)

RECURSIVE constraintViolations(_, _, _, _)
\* the violations the loop over constraints pushes, in its order
constraintViolations(constraints, authorisation, action, context) ==
  IF constraints = << >> THEN << >>
  ELSE checkConstraint(constraints[1], authorisation, action, context)
       \o constraintViolations(Tail(constraints), authorisation, action, context)

Match(authorisation_id, action_id, status, violations, matched_at) ==
  [authorisation_id |-> authorisation_id, action_id |-> action_id,
   status |-> status, violations |-> violations, matched_at |-> matched_at]

\* mutant: an expiry at the very instant of the action counts as passed
expiredAtOrEqual(expires_at, timestamp) ==
  /\ expires_at # Null
  /\ expires_at[1] # ""
  /\ DateParse(expires_at[1]) # NaN
  /\ DateParse(timestamp) # NaN
  /\ DateParse(expires_at[1]) <= DateParse(timestamp)

\* authorisation.expires_at && new Date(expires_at) < new Date(timestamp)
expiredAt(expires_at, timestamp) ==
  /\ expires_at # Null
  /\ expires_at[1] # ""
  /\ DateParse(expires_at[1]) # NaN
  /\ DateParse(timestamp) # NaN
  /\ DateParse(expires_at[1]) < DateParse(timestamp)

\* the match of the branch !authorisation
unauthorisedMatch(action, matched_at) ==
  Match(action.authorisation_id, action.id, "exceeded",
        << Violation("authorisation", "valid authorisation", "none",
                     "critical", "Action has no matching authorisation") >>,
        matched_at)

\* the match of the branch authorisation.revoked
revokedMatch(auth, action, matched_at) ==
  Match(auth.id, action.id, "revoked",
        << Violation("revocation", "active authorisation",
                     "revoked at " \o OrElse(auth.revoked_at, "null"),
                     "critical",
                     "Action performed after authorisation was revoked") >>,
        matched_at)

\* the match of the expiry branch
expiredMatch(auth, action, matched_at) ==
  Match(auth.id, action.id, "expired",
        << Violation("expiry",
                     "valid before " \o auth.expires_at[1],
                     action.timestamp,
                     "critical",
                     "Action performed after authorisation expired") >>,
        matched_at)

\* the match of the branch scope === 'emergency'
emergencyMatch(auth, action, matched_at) ==
  Match(auth.id, action.id, "pending_ratification", << >>, matched_at)

\* the match the constraint loop ends in
constraintsMatch(auth, action, context, matched_at) ==
  LET violations == constraintViolations(auth.constraints, auth, action, context)
  IN Match(auth.id, action.id,
           IF Len(violations) > 0 THEN "exceeded" ELSE "within_bounds",
           violations, matched_at)

\* mutant: the expiry is looked at before the revocation
matchConsentExpiryFirst(authorisation, action, context, t) ==
  LET matched_at == toISOString(t)
  IN IF authorisation = Null THEN unauthorisedMatch(action, matched_at)
     ELSE IF expiredAt(authorisation[1].expires_at, action.timestamp)
     THEN expiredMatch(authorisation[1], action, matched_at)
     ELSE IF authorisation[1].revoked
     THEN revokedMatch(authorisation[1], action, matched_at)
     ELSE IF authorisation[1].scope = "emergency"
     THEN emergencyMatch(authorisation[1], action, matched_at)
     ELSE constraintsMatch(authorisation[1], action, context, matched_at)

\* mutant: an emergency authorisation is pending only when no constraint is
\* breached
matchConsentEmergencyChecked(authorisation, action, context, t) ==
  LET matched_at == toISOString(t)
  IN IF authorisation = Null THEN unauthorisedMatch(action, matched_at)
     ELSE IF authorisation[1].revoked
     THEN revokedMatch(authorisation[1], action, matched_at)
     ELSE IF expiredAt(authorisation[1].expires_at, action.timestamp)
     THEN expiredMatch(authorisation[1], action, matched_at)
     ELSE IF /\ authorisation[1].scope = "emergency"
             /\ constraintViolations(authorisation[1].constraints, authorisation[1],
                                     action, context) = << >>
     THEN emergencyMatch(authorisation[1], action, matched_at)
     ELSE constraintsMatch(authorisation[1], action, context, matched_at)

\* mutant: the expiry is compared with the instant of the check
matchConsentExpiryNow(authorisation, action, context, t) ==
  LET matched_at == toISOString(t)
  IN IF authorisation = Null THEN unauthorisedMatch(action, matched_at)
     ELSE IF authorisation[1].revoked
     THEN revokedMatch(authorisation[1], action, matched_at)
     ELSE IF expiredAt(authorisation[1].expires_at, matched_at)
     THEN expiredMatch(authorisation[1], action, matched_at)
     ELSE IF authorisation[1].scope = "emergency"
     THEN emergencyMatch(authorisation[1], action, matched_at)
     ELSE constraintsMatch(authorisation[1], action, context, matched_at)

\* matchConsent(authorisation, action, context) called at the instant t;
\* authorisation is <<entry>> or <<>> for null; context is the Map
\* actionCountByAuthorisationInPeriod
matchConsent(authorisation, action, context, t) ==
  LET matched_at == toISOString(t)
  IN IF authorisation = Null THEN unauthorisedMatch(action, matched_at)
     ELSE IF authorisation[1].revoked
     THEN revokedMatch(authorisation[1], action, matched_at)
     ELSE IF expiredAt(authorisation[1].expires_at, action.timestamp)
     THEN expiredMatch(authorisation[1], action, matched_at)
     ELSE IF authorisation[1].scope = "emergency"
     THEN emergencyMatch(authorisation[1], action, matched_at)
     ELSE constraintsMatch(authorisation[1], action, context, matched_at)

\* buildMatcherContext(): the bucket of each action is computed but the
\* counts are kept per authorisation_id alone
buildMatcherContext(acts) ==
  [id \in {acts[i].authorisation_id : i \in 1..Len(acts)} |->
     Cardinality({i \in 1..Len(acts) : acts[i].authorisation_id = id})]

\* getAuthorisation(id): <<entry>> or <<>> for null
getAuthorisation(id) == IF id \in DOMAIN authById THEN Some(authById[id]) ELSE Null

checkConsent(action_id) ==
  IF action_id \notin DOMAIN actionById
  THEN /\ last' = Call("checkConsent", action_id, TRUE)
       /\ UNCHANGED << ledgerVars, now, json, result >>
  ELSE LET action == actionById[action_id]
           auth == getAuthorisation(action.authorisation_id)
           context == buildMatcherContext(actions)
       IN /\ result' = Some(matchConsent(auth, action, context, now))
          /\ last' = Call("checkConsent", action_id, FALSE)
          /\ UNCHANGED << ledgerVars, now, json >>

\* the ids revoke is called with: an authorisation of the ledger, or none
ClaimableIds == (DOMAIN authById) \cup {UnknownId}

\* the authorisation the recorded actions claim: the first one granted; the
\* ledger does not look it up when it records
ClaimedId == generateId("a", 1)

WithAuth(input, id) ==
  [agent_id |-> input.agent_id, authorisation_id |-> id,
   action_type |-> input.action_type, description |-> input.description,
   parameters |-> input.parameters, clearpath_trace_id |-> input.clearpath_trace_id]

Next ==
  \/ Tick
  \/ \E entry \in AuthInputs : authorise(entry)
  \/ \E id \in ClaimableIds : revoke(id)
  \/ \E input \in SpecActionInputs : recordAction(WithAuth(input, ClaimedId))

Spec == Init /\ [][Next]_vars

\* a ledger is built, exported once, possibly edited once, and imported
NextIO ==
  \/ /\ json = Null
     /\ \/ \E entry \in IOAuthInputs : authorise(entry)
        \/ \E id \in DOMAIN authById : revoke(id)
        \/ \E input \in ActionInputs : recordAction(WithAuth(input, ClaimedId))
  \/ toJSON
  \/ \E chain \in Chains, i \in 1..(MaxAuths + MaxActions) :
       \E k \in ContentKeys(chain) :
         \E v \in Replacements(chain, k) : EditEntry(chain, i, k, v)
  \/ \E chain \in Chains, i \in 1..(MaxAuths + MaxActions) : SwapEntries(chain, i)
  \/ \E tag \in SchemaTags : EditSchema(tag)
  \/ fromJSON

SpecIO == Init /\ [][NextIO]_vars

\* -------------------------------------------------------- drift detector
\* mutant: two data points are taken for a trend
MIN_DATA_POINTS_OfTwo == 3 - 1

MIN_DATA_POINTS == 3

RECURSIVE Concat(_)
\* [].concat(...seqs): the elements of the sequences of seqs, in order
Concat(seqs) ==
  IF seqs = << >> THEN << >> ELSE seqs[1] \o Concat(Tail(seqs))

getMonetaryValue(parameters) ==
  parseNumber(firstDefined(parameters, << "amount", "value", "cost" >>))

\* auth.constraints.find((x) => x.type === type): <<constraint>> or <<>>
findConstraint(auth, type) ==
  LET found == SelectSeq(auth.constraints, LAMBDA c : c.type = type)
  IN IF found = << >> THEN Null ELSE Some(found[1])

getLimitForAuth(auth, type) ==
  LET c == findConstraint(auth, type)
  IN IF c = Null THEN Null ELSE parseNumber(Str(c[1].parameter))

\* byAuth.get(auth.id) ?? []: the actions that claim id, in chain order
byAuth(acts, id) == SelectSeq(acts, LAMBDA a : a.authorisation_id = id)

RECURSIVE sortByTimestamp(_)
\* list.slice().sort((x, y) => time of x - time of y); the sort is stable
sortByTimestamp(list) ==
  IF list = << >> THEN << >>
  ELSE LET i == CHOOSE i \in 1..Len(list) :
                  \A j \in 1..Len(list) :
                    \/ DateParse(list[i].timestamp) < DateParse(list[j].timestamp)
                    \/ /\ DateParse(list[i].timestamp) = DateParse(list[j].timestamp)
                       /\ i <= j
       IN << list[i] >>
          \o sortByTimestamp(SubSeq(list, 1, i - 1) \o SubSeq(list, i + 1, Len(list)))

\* a ScopeCreepPattern before generateId names it; severity is in thousandths
Pattern(pattern_type, description, evidence_ids, severity, first_detected, occurrences) ==
  [id |-> "", pattern_type |-> pattern_type, description |-> description,
   evidence_ids |-> evidence_ids, severity |-> severity,
   first_detected |-> first_detected, occurrences |-> occurrences]

\* mutant: the score is not capped
MinOfNoCap(a, b) == b

Min(a, b) == IF a <= b THEN a ELSE b

\* v / limit <= w / limit in IEEE arithmetic: with limit 0 a ratio is NaN
\* (0/0), Infinity or -Infinity, and no comparison with NaN holds
ratioLeq(v, w, limit) ==
  IF limit > 0 THEN v <= w
  ELSE IF limit < 0 THEN v >= w
  ELSE v # 0 /\ w # 0 /\ (v < 0 \/ w > 0)

\* v / limit >= 0.7
ratioAtLeast70(v, limit) ==
  IF limit > 0 THEN 10 * v >= 7 * limit
  ELSE IF limit < 0 THEN 10 * v <= 7 * limit
  ELSE v > 0

\* the patterns detectGradualExpansion pushes for one authorisation
gradualExpansionOf(auth, acts) ==
  LET limit == getLimitForAuth(auth, "monetary_limit")
      list == sortByTimestamp(byAuth(acts, auth.id))
      values == SelectSeq(list, LAMBDA a : getMonetaryValue(a.parameters) # Null)
      v(i) == getMonetaryValue(values[i].parameters)[1]
      increasing == \A i \in 2..Len(values) : ~ratioLeq(v(i), v(i - 1), limit[1])
  IN IF limit = Null THEN << >>
     ELSE IF Len(values) < MIN_DATA_POINTS THEN << >>
     ELSE IF increasing /\ ratioAtLeast70(v(Len(values)), limit[1])
     THEN << Pattern("gradual_expansion",
                     "Spending or value creeping toward limit (" \o ToString(limit[1])
                       \o ") over " \o ToString(Len(values)) \o " actions",
                     [i \in 1..Len(values) |-> values[i].id],
                     IF limit[1] # 0
                     THEN Min(900, 300 + ((500 * v(Len(values))) \div limit[1]))
                     ELSE 900,
                     values[1].timestamp,
                     Len(values)) >>
     ELSE << >>

detectGradualExpansion(auths, acts) ==
  Concat([i \in 1..Len(auths) |-> gradualExpansionOf(auths[i], acts)])

\* mutant: the period is twelve hours
bucketOfHalfDay(timestamp) == DateParse(timestamp)

\* Math.floor(t / periodMs) * periodMs, in days
bucketOf(timestamp) == DateParse(timestamp) \div 2

\* the counts of the buckets of list, in the order of the buckets
bucketCounts(list) ==
  LET counted(b) == Cardinality({ i \in 1..Len(list) : bucketOf(list[i].timestamp) = b })
  IN Concat([k \in 1..(MaxTime + 6) |->
               IF counted(k - 1) > 0 THEN << counted(k - 1) >> ELSE << >>])

\* the patterns detectFrequencyEscalation pushes for one authorisation; the
\* arrow U+2192 of the description is written ->
frequencyEscalationOf(auth, acts) ==
  LET list == sortByTimestamp(byAuth(acts, auth.id))
      counts == bucketCounts(list)
      escalating == \A i \in 2..Len(counts) : counts[i] > counts[i - 1]
  IN IF Len(list) < MIN_DATA_POINTS THEN << >>
     ELSE IF Len(counts) < MIN_DATA_POINTS THEN << >>
     ELSE IF escalating
     THEN << Pattern("frequency_escalation",
                     "Action frequency increasing over time ("
                       \o Join([i \in 1..Len(counts) |-> ToString(counts[i])], " -> ")
                       \o " per period)",
                     [i \in 1..MIN_DATA_POINTS |->
                        list[Len(list) - MIN_DATA_POINTS + i].id],
                     Min(900, 200 + 100 * counts[Len(counts)]),
                     list[1].timestamp,
                     Len(counts)) >>
     ELSE << >>

detectFrequencyEscalation(auths, acts) ==
  Concat([i \in 1..Len(auths) |-> frequencyEscalationOf(auths[i], acts)])

\* the action a is outside the domains allowed: it names a domain and no
\* allowed one contains it or is contained in it
outsideDomain(allowed, a) ==
  LET raw == firstDefined(a.parameters, << "domain", "category", "type" >>)
      domain == IF raw.t \in {"undefined", "null"} THEN << >>
                ELSE toLowerCase(stringOfValue(raw))
  IN /\ domain # << >>
     /\ ~\E i \in 1..Len(allowed) :
          includes(domain, allowed[i]) \/ includes(allowed[i], domain)

\* mutant: the actions of every authorisation are taken together
domainDriftOfEveryAction(auth, acts) ==
  LET domainConstraint == findConstraint(auth, "domain_restriction")
      tokens == split(toLowerCase(Chars(domainConstraint[1].parameter)), ",")
      allowed == [i \in 1..Len(tokens) |-> trim(tokens[i])]
      list == sortByTimestamp(acts)
      outside == SelectSeq(list, LAMBDA a : outsideDomain(allowed, a))
  IN IF domainConstraint = Null THEN << >>
     ELSE IF Len(list) < MIN_DATA_POINTS THEN << >>
     ELSE IF Len(outside) >= MIN_DATA_POINTS
     THEN << Pattern("domain_drift",
                     "Actions increasingly outside authorised domain ("
                       \o Join([i \in 1..Len(allowed) |-> StringOf(allowed[i])], ", ")
                       \o ")",
                     [i \in 1..Len(outside) |-> outside[i].id],
                     Min(900, 300 + 100 * Len(outside)),
                     outside[1].timestamp,
                     Len(outside)) >>
     ELSE << >>

\* the patterns detectDomainDrift pushes for one authorisation
domainDriftOf(auth, acts) ==
  LET domainConstraint == findConstraint(auth, "domain_restriction")
      tokens == split(toLowerCase(Chars(domainConstraint[1].parameter)), ",")
      allowed == [i \in 1..Len(tokens) |-> trim(tokens[i])]
      list == sortByTimestamp(byAuth(acts, auth.id))
      outside == SelectSeq(list, LAMBDA a : outsideDomain(allowed, a))
  IN IF domainConstraint = Null THEN << >>
     ELSE IF Len(list) < MIN_DATA_POINTS THEN << >>
     ELSE IF Len(outside) >= MIN_DATA_POINTS
     THEN << Pattern("domain_drift",
                     "Actions increasingly outside authorised domain ("
                       \o Join([i \in 1..Len(allowed) |-> StringOf(allowed[i])], ", ")
                       \o ")",
                     [i \in 1..Len(outside) |-> outside[i].id],
                     Min(900, 300 + 100 * Len(outside)),
                     outside[1].timestamp,
                     Len(outside)) >>
     ELSE << >>

detectDomainDrift(auths, acts) ==
  Concat([i \in 1..Len(auths) |-> domainDriftOf(auths[i], acts)])

\* severityOrder[severity] ?? 0
severityOrder(severity) ==
  CASE severity = "minor" -> 1
    [] severity = "major" -> 2
    [] severity = "critical" -> 3
    [] OTHER -> 0

RECURSIVE firstOccurrences(_)
\* the keys of a Map filled in the order of seq: each value once, in the
\* order of its first occurrence
firstOccurrences(seq) ==
  IF seq = << >> THEN << >>
  ELSE LET front == firstOccurrences(SubSeq(seq, 1, Len(seq) - 1))
           x == seq[Len(seq)]
       IN IF \E i \in 1..Len(front) : front[i] = x THEN front ELSE Append(front, x)

\* mutant: severities that repeat count as increasing
detectConstraintErosionNonDecreasing(acts, violationsByAction, t) ==
  LET flat == Concat([i \in 1..Len(violationsByAction) |->
                        [k \in 1..Len(violationsByAction[i].violations) |->
                           [constraint_type |->
                              violationsByAction[i].violations[k].constraint_type,
                            actionId |-> violationsByAction[i].action_id,
                            severity |-> violationsByAction[i].violations[k].severity]]])
      types == firstOccurrences([i \in 1..Len(flat) |-> flat[i].constraint_type])
      erosionOf(constraintType) ==
        LET list == SelectSeq(flat, LAMBDA x : x.constraint_type = constraintType)
            increasing == \A i \in 2..Len(list) :
                            severityOrder(list[i].severity)
                              >= severityOrder(list[i - 1].severity)
        IN IF Len(list) < MIN_DATA_POINTS THEN << >>
           ELSE IF increasing
           THEN << Pattern("constraint_erosion",
                           "Repeated violations of " \o constraintType
                             \o " with increasing severity",
                           [i \in 1..Len(list) |-> list[i].actionId],
                           700,
                           toISOString(t),
                           Len(list)) >>
           ELSE << >>
  IN Concat([i \in 1..Len(types) |-> erosionOf(types[i])])

\* violationsByAction is the sequence of the entries [action_id, violations]
\* of the Map, in insertion order
detectConstraintErosion(acts, violationsByAction, t) ==
  LET flat == Concat([i \in 1..Len(violationsByAction) |->
                        [k \in 1..Len(violationsByAction[i].violations) |->
                           [constraint_type |->
                              violationsByAction[i].violations[k].constraint_type,
                            actionId |-> violationsByAction[i].action_id,
                            severity |-> violationsByAction[i].violations[k].severity]]])
      types == firstOccurrences([i \in 1..Len(flat) |-> flat[i].constraint_type])
      erosionOf(constraintType) ==
        LET list == SelectSeq(flat, LAMBDA x : x.constraint_type = constraintType)
            increasing == \A i \in 2..Len(list) :
                            severityOrder(list[i].severity)
                              > severityOrder(list[i - 1].severity)
        IN IF Len(list) < MIN_DATA_POINTS THEN << >>
           ELSE IF increasing
           THEN << Pattern("constraint_erosion",
                           "Repeated violations of " \o constraintType
                             \o " with increasing severity",
                           [i \in 1..Len(list) |-> list[i].actionId],
                           700,
                           toISOString(t),
                           Len(list)) >>
           ELSE << >>
  IN Concat([i \in 1..Len(types) |-> erosionOf(types[i])])

\* mutant: every action that fails counts, whatever it claims
detectAuthorityInflationOfEveryFailure(auths, acts, matchStatusByAction) ==
  LET inflated == SelectSeq(acts,
                    LAMBDA a : /\ a.id \in DOMAIN matchStatusByAction
                               /\ matchStatusByAction[a.id]
                                    \in {"exceeded", "revoked", "expired"})
  IN IF Len(inflated) < MIN_DATA_POINTS THEN << >>
     ELSE << Pattern("authority_inflation",
                     "Actions without valid authorisation (no auth or exceeded/revoked/expired)",
                     [i \in 1..Len(inflated) |-> inflated[i].id],
                     800,
                     inflated[1].timestamp,
                     Len(inflated)) >>

\* matchStatusByAction is the Map action id -> status, as a function
detectAuthorityInflation(auths, acts, matchStatusByAction) ==
  LET inflated == SelectSeq(acts,
                    LAMBDA a : /\ a.id \in DOMAIN matchStatusByAction
                               /\ matchStatusByAction[a.id]
                                    \in {"exceeded", "revoked", "expired"})
      authIds == { auths[i].id : i \in 1..Len(auths) }
      noAuth == SelectSeq(inflated, LAMBDA a : a.authorisation_id \notin authIds)
  IN IF Len(inflated) < MIN_DATA_POINTS THEN << >>
     ELSE IF Len(noAuth) >= MIN_DATA_POINTS
     THEN << Pattern("authority_inflation",
                     "Actions without valid authorisation (no auth or exceeded/revoked/expired)",
                     [i \in 1..Len(noAuth) |-> noAuth[i].id],
                     800,
                     noAuth[1].timestamp,
                     Len(noAuth)) >>
     ELSE << >>

\* detectScopeCreep(input) of the drift detector, called at the instant t;
\* generateId names the patterns in the order they are pushed
detectScopeCreep(input, t) ==
  LET pushed == detectGradualExpansion(input.authorisations, input.actions)
                \o detectFrequencyEscalation(input.authorisations, input.actions)
                \o detectDomainDrift(input.authorisations, input.actions)
                \o detectConstraintErosion(input.actions, input.violationsByAction, t)
                \o detectAuthorityInflation(input.authorisations, input.actions,
                                            input.matchStatusByAction)
      all == [i \in 1..Len(pushed) |-> [pushed[i] EXCEPT !.id = generateId("p", i)]]
  IN SelectSeq(all, LAMBDA p : Len(p.evidence_ids) >= MIN_DATA_POINTS)

\* mutant: an action whose authorisation the ledger does not have is left out
checkAllActionsOfKnown(acts, byId, t) ==
  LET context == buildMatcherContext(acts)
      known == SelectSeq(acts, LAMBDA a : a.authorisation_id \in DOMAIN byId)
  IN [i \in 1..Len(known) |->
        matchConsent(Some(byId[known[i].authorisation_id]), known[i], context, t)]

\* checkAllActions() called at the instant t
checkAllActions(acts, byId, t) ==
  LET context == buildMatcherContext(acts)
  IN [i \in 1..Len(acts) |->
        matchConsent(IF acts[i].authorisation_id \in DOMAIN byId
                     THEN Some(byId[acts[i].authorisation_id]) ELSE Null,
                     acts[i], context, t)]

\* ConsentLedger.detectScopeCreep() on the ledger (auths, acts, byId) at t
ledgerScopeCreep(auths, acts, byId, t) ==
  LET violationsOf(withViolations) ==
        [i \in 1..Len(withViolations) |->
           [action_id |-> withViolations[i].action_id,
            violations |->
              [k \in 1..Len(withViolations[i].violations) |->
                 [constraint_type |-> withViolations[i].violations[k].constraint_type,
                  severity |-> withViolations[i].violations[k].severity]]]]
      statusOf(matches) ==
        [id \in { matches[i].action_id : i \in 1..Len(matches) } |->
           LET i == CHOOSE i \in 1..Len(matches) :
                      /\ matches[i].action_id = id
                      /\ \A j \in (i + 1)..Len(matches) : matches[j].action_id # id
           IN matches[i].status]
      input(matches) ==
        [authorisations |-> auths,
         actions |-> acts,
         violationsByAction |->
           violationsOf(SelectSeq(matches, LAMBDA m : Len(m.violations) > 0)),
         matchStatusByAction |-> statusOf(matches)]
  IN detectScopeCreep(input(checkAllActions(acts, byId, t)), t)

\* the operation detectScopeCreep() of the ledger
detectScopeCreepCall ==
  /\ result' = Some(ledgerScopeCreep(authorisations, actions, authById, now))
  /\ last' = Call("detectScopeCreep", "", FALSE)
  /\ UNCHANGED << ledgerVars, now, json >>

\* ------------------------------------------------- the read operations
\* the operation checkAllActions() of the ledger
checkAllActionsCall ==
  /\ result' = Some(checkAllActions(actions, authById, now))
  /\ last' = Call("checkAllActions", "", FALSE)
  /\ UNCHANGED << ledgerVars, now, json >>

\* the operation verify() of the ledger
verifyCall ==
  /\ result' = Some(verify)
  /\ last' = Call("verify", "", FALSE)
  /\ UNCHANGED << ledgerVars, now, json >>

\* the operation getActiveAuthorisations() of the ledger
getActiveAuthorisationsCall ==
  /\ result' = Some(getActiveAuthorisations(authorisations, now))
  /\ last' = Call("getActiveAuthorisations", "", FALSE)
  /\ UNCHANGED << ledgerVars, now, json >>

\* getActions(filters) on the ledger (acts, byId) at the instant t; a filter
\* is <<value>>, or <<>> when it is not given, and an empty string is falsy;
\* the three filters applied in turn keep the actions that pass each of them;
\* matchByAction.get(a.id) is the last match of the id a.id
getActions(acts, byId, filters, t) ==
  LET kept(matches) ==
        SelectSeq(acts,
          LAMBDA a :
            /\ filters.agent_id \in {Null, Some("")}
                 \/ a.agent_id = filters.agent_id[1]
            /\ filters.authorisation_id \in {Null, Some("")}
                 \/ a.authorisation_id = filters.authorisation_id[1]
            /\ filters.status \in {Null, Some("")}
                 \/ \E k \in 1..Len(matches) :
                      /\ matches[k].action_id = a.id
                      /\ \A later \in (k + 1)..Len(matches) :
                           matches[later].action_id # a.id
                      /\ matches[k].status = filters.status[1])
  IN kept(checkAllActions(acts, byId, t))

\* the operation getActions(filters) of the ledger; filters.key names the
\* filters in the record of the call
getActionsCall(filters) ==
  /\ result' = Some(getActions(actions, authById, filters, now))
  /\ last' = Call("getActions", filters.key, FALSE)
  /\ UNCHANGED << ledgerVars, now, json >>

\* the operation getViolations() of the ledger
getViolationsCall ==
  /\ result' = Some(SelectSeq(checkAllActions(actions, authById, now),
                              LAMBDA m : Len(m.violations) > 0))
  /\ last' = Call("getViolations", "", FALSE)
  /\ UNCHANGED << ledgerVars, now, json >>

\* ----------------------------------------- a ledger built, then consulted
\* arguments of authorise for the ledgers that are consulted
ConsentAuthInputs ==
  { [principal_id |-> "user-1", agent_id |-> "agent-1", scope |-> "categorical",
     description |-> "Book flights",
     constraints |-> << Constraint("frequency_limit", "Once a day", "1") >>,
     expires_at |-> Null] }

\* the ids revoke and recordAction are called with: the first authorisation
\* granted, there or not yet, and an id no authorisation has
ConsentIds == {ClaimedId, UnknownId}

\* a day passes between calls
NextDay ==
  /\ now + 2 <= MaxTime + 2
  /\ now' = now + 2
  /\ UNCHANGED << ledgerVars, last, json, result >>

\* the ledger is built until the first checkConsent, and consulted from then on
NextConsent ==
  \/ /\ result = Null
     /\ last.op # "checkConsent"
     /\ \/ NextDay
        \/ \E entry \in ConsentAuthInputs : authorise(entry)
        \/ \E id \in ConsentIds : revoke(id)
        \/ \E input \in SpecActionInputs, id \in ConsentIds :
             recordAction(WithAuth(input, id))
  \/ \E id \in (DOMAIN actionById) \cup {UnknownId} : checkConsent(id)

SpecConsent == Init /\ [][NextConsent]_vars

\* ------------------------------------------- the matcher on chosen inputs
MatchScopes == {"categorical", "emergency"}

MatchConstraintLists ==
  { << >>,
    << Constraint("monetary_limit", "Max", "500") >>,
    << Constraint("monetary_limit", "Max", "500"),
       Constraint("domain_restriction", "Europe only", "europe,eu"),
       Constraint("approval_required", "Approval", "") >> }

MatchExpiries == {Null, Some("")} \cup {Some(toISOString(t)) : t \in 0..MaxTime}

MatchAuthInputs ==
  { [principal_id |-> "user-1", agent_id |-> "agent-1", scope |-> s,
     description |-> "Book flights", constraints |-> c, expires_at |-> e] :
    s \in MatchScopes, c \in MatchConstraintLists, e \in MatchExpiries }

MatchActionInputs ==
  ActionInputs \cup
  { [agent_id |-> "agent-1", action_type |-> "book_flight",
     description |-> "Book flight to Paris",
     parameters |-> [amount |-> Num(1200), domain |-> Str("asia")],
     clearpath_trace_id |-> Null] }

\* a ledger after one authorise at t0, possibly one revoke at t1 and one
\* recordAction at t2, in either order
InitMatch ==
  \E input \in MatchAuthInputs, act \in MatchActionInputs,
     t0 \in 0..MaxTime, t1 \in 0..MaxTime, t2 \in 0..MaxTime, t3 \in 0..MaxTime,
     isRevoked \in BOOLEAN, id \in {generateId("a", 1), UnknownId} :
    LET granted == authoriseEntry(<< >>, input, t0)
        auth == IF isRevoked THEN revokedEntry(granted, t1) ELSE granted
        action == actionRecord(<< >>, WithAuth(act, id), t2)
    IN /\ t0 <= t1 /\ t1 <= t3 /\ t2 <= t3
       /\ (id = granted.id) => t0 <= t2
       /\ (~isRevoked) => t1 = t0
       /\ principal_id = "user-1"
       /\ authorisations = << auth >>
       /\ actions = << action >>
       /\ authById = MapOf(<< auth >>)
       /\ actionById = MapOf(<< action >>)
       /\ now = t3
       /\ last = Call(IF isRevoked THEN "revoke" ELSE "recordAction",
                      IF isRevoked THEN auth.id ELSE action.id, FALSE)
       /\ json = Null
       /\ result = Null

NextMatch == \E id \in (DOMAIN actionById) \cup {UnknownId} : checkConsent(id)

SpecMatch == InitMatch /\ [][NextMatch]_vars

\* ------------------------------- the monetary limit on chosen parameters
\* the parameter texts of a monetary_limit constraint
LimitTexts == {"500", "0", "abc", ""}

\* what an action gives under the key amount, value or cost; Undefined
\* stands for a key the parameters do not have
AmountValues ==
  { Undefined, NullV, Num(320), Num(500), Num(600), Num(750), Num(751), Num(1200),
    Str("600"), Str("abc"), Bool(TRUE) }

ValueValues == { Undefined, Num(600), Str("abc") }

CostValues == { Undefined, Num(1200) }

\* the parameters object with the keys that are given
MonetaryParameters(amount, value, cost) ==
  LET given == [amount |-> amount, value |-> value, cost |-> cost]
  IN [k \in { k \in {"amount", "value", "cost"} : given[k] # Undefined } |-> given[k]]

\* a ledger after authorise of one monetary_limit constraint and recordAction
\* of one action under it
InitMonetary ==
  \E limit \in LimitTexts, amount \in AmountValues, value \in ValueValues,
     cost \in CostValues :
    LET auth == authoriseEntry(<< >>,
                  [principal_id |-> "user-1", agent_id |-> "agent-1",
                   scope |-> "categorical", description |-> "Book flights",
                   constraints |-> << Constraint("monetary_limit", "Max", limit) >>,
                   expires_at |-> Null], 0)
        action == actionRecord(<< >>,
                    [agent_id |-> "agent-1", authorisation_id |-> auth.id,
                     action_type |-> "book_flight",
                     description |-> "Book flight to Paris",
                     parameters |-> MonetaryParameters(amount, value, cost),
                     clearpath_trace_id |-> Null], 0)
    IN /\ principal_id = "user-1"
       /\ authorisations = << auth >>
       /\ actions = << action >>
       /\ authById = MapOf(<< auth >>)
       /\ actionById = MapOf(<< action >>)
       /\ now = 0
       /\ last = Call("recordAction", action.id, FALSE)
       /\ json = Null
       /\ result = Null

SpecMonetary == InitMonetary /\ [][NextMatch]_vars

\* --------------------------------------- expiry and revocation over time
RECURSIVE authorisedChain(_, _)
\* the chain after authorise of each of entries in turn, all at the instant t
authorisedChain(entries, t) ==
  IF entries = << >> THEN << >>
  ELSE LET auths == authorisedChain(SubSeq(entries, 1, Len(entries) - 1), t)
       IN Append(auths, authoriseEntry(auths, entries[Len(entries)], t))

\* a ledger after up to MaxAuths calls of authorise with chosen expiries
InitActive ==
  \E n \in 0..MaxAuths :
    \E expiries \in [1..n -> MatchExpiries] :
      LET auths == authorisedChain(
                     [i \in 1..n |->
                        [principal_id |-> "user-1", agent_id |-> "agent-1",
                         scope |-> "categorical", description |-> "Book flights",
                         constraints |-> << >>, expires_at |-> expiries[i]]], 0)
      IN /\ principal_id = "user-1"
         /\ authorisations = auths
         /\ actions = << >>
         /\ authById = MapOf(auths)
         /\ actionById = EmptyMap
         /\ now = 0
         /\ last = Call(IF n = 0 THEN "new" ELSE "authorise",
                        IF n = 0 THEN "" ELSE auths[n].id, FALSE)
         /\ json = Null
         /\ result = Null

NextActive ==
  \/ Tick
  \/ \E id \in ClaimableIds : revoke(id)

SpecActive == InitActive /\ [][NextActive]_vars

\* --------------------------------------- the drift detector on ledgers
MaxDriftActions == 3

RECURSIVE recordedChain(_, _, _)
\* the chain after recordAction of each of inputs in turn on the chain acts,
\* the k-th at the instant times[k]
recordedChain(acts, inputs, times) ==
  IF inputs = << >> THEN acts
  ELSE LET n == Len(inputs)
           front == recordedChain(acts, SubSeq(inputs, 1, n - 1), SubSeq(times, 1, n - 1))
       IN Append(front, actionRecord(front, inputs[n], times[n]))

\* arguments of authorise for the ledgers the detector runs on
DriftAuthInput ==
  [principal_id |-> "user-1", agent_id |-> "agent-1", scope |-> "categorical",
   description |-> "Book flights",
   constraints |-> << Constraint("monetary_limit", "Max", "500"),
                      Constraint("domain_restriction", "Europe only", "europe,eu") >>,
   expires_at |-> Null]

\* arguments of recordAction, but for authorisation_id
DriftActionInputs ==
  { [agent_id |-> "agent-1", action_type |-> "book_flight",
     description |-> "Book flight to Paris",
     parameters |-> [amount |-> Num(amount), domain |-> Str(domain)],
     clearpath_trace_id |-> Null] :
    << amount, domain >> \in { << 300, "europe" >>, << 400, "asia" >>, << 450, "asia" >> } }

\* the ids the actions claim: the two authorisations of the ledger, or none
DriftIds == {generateId("a", 1), generateId("a", 2), UnknownId}

\* the instants of the actions a ledger starts with: none, or one action on
\* the first day, two on the second and three on the third
DriftSeeds == { << >>, << 0, 2, 2, 4, 4, 4 >> }

\* an action of the first authorisation that names no amount
SeedInput ==
  [agent_id |-> "agent-1", authorisation_id |-> generateId("a", 1),
   action_type |-> "search", description |-> "Pay invoice",
   parameters |-> [domain |-> Str("europe")], clearpath_trace_id |-> Null]

\* a ledger with two authorisations, the actions of a seed and up to
\* MaxDriftActions further actions, recorded after them
InitDrift ==
  \E seed \in DriftSeeds, n \in 0..MaxDriftActions :
    \E picks \in [1..n -> DriftActionInputs \X DriftIds] :
      LET t == IF seed = << >> THEN 0 ELSE seed[Len(seed)]
          auths == authorisedChain(<< DriftAuthInput, DriftAuthInput >>, 0)
          seeded == recordedChain(<< >>, [i \in 1..Len(seed) |-> SeedInput], seed)
          acts == recordedChain(seeded,
                                [i \in 1..n |-> WithAuth(picks[i][1], picks[i][2])],
                                [i \in 1..n |-> t])
      IN /\ principal_id = "user-1"
         /\ authorisations = auths
         /\ actions = acts
         /\ authById = MapOf(auths)
         /\ actionById = MapOf(acts)
         /\ now = t
         /\ last = Call(IF acts = << >> THEN "authorise" ELSE "recordAction",
                        IF acts = << >> THEN auths[2].id ELSE acts[Len(acts)].id, FALSE)
         /\ json = Null
         /\ result = Null

NextDrift == detectScopeCreepCall

SpecDrift == InitDrift /\ [][NextDrift]_vars

\* a ledger with one authorisation under a monetary_limit and up to
\* MaxDriftActions actions of it, the k-th recorded at the instant k; an
\* action gives an amount or none
InitGradual ==
  \E limit \in {"500", "0", "-500"}, n \in 0..MaxDriftActions :
    \E amounts \in [1..n -> { Undefined, Num(0), Num(100), Num(250), Num(400),
                              Num(0 - 400) }] :
      LET auths == authorisedChain(
                     << [DriftAuthInput EXCEPT
                           !.constraints =
                             << Constraint("monetary_limit", "Max", limit) >>] >>, 0)
          acts == recordedChain(<< >>,
                    [i \in 1..n |->
                       [agent_id |-> "agent-1", authorisation_id |-> auths[1].id,
                        action_type |-> "book_flight",
                        description |-> "Book flight to Paris",
                        parameters |-> MonetaryParameters(amounts[i], Undefined,
                                                          Undefined),
                        clearpath_trace_id |-> Null]],
                    [i \in 1..n |-> i])
      IN /\ principal_id = "user-1"
         /\ authorisations = auths
         /\ actions = acts
         /\ authById = MapOf(auths)
         /\ actionById = MapOf(acts)
         /\ now = n
         /\ last = Call(IF n = 0 THEN "authorise" ELSE "recordAction",
                        IF n = 0 THEN auths[1].id ELSE acts[n].id, FALSE)
         /\ json = Null
         /\ result = Null

SpecGradual == InitGradual /\ [][NextDrift]_vars

MaxFrequencyActions == 6

\* a ledger with two authorisations and up to MaxFrequencyActions actions
\* recorded on four days: on the first day, on the second in the morning
\* and in the afternoon, on the third and on the fourth; the actions claim
\* the first authorisation, but for the last when other holds
InitFrequency ==
  \E n \in 0..MaxFrequencyActions, other \in BOOLEAN :
    \E times \in [1..n -> {0, 2, 3, 4, 6}] :
      /\ \A i \in 2..n : times[i - 1] <= times[i]
      /\ other => n > 0
      /\ LET auths == authorisedChain(<< DriftAuthInput, DriftAuthInput >>, 0)
             acts == recordedChain(<< >>,
                       [i \in 1..n |->
                          WithAuth(SeedInput,
                                   IF other /\ i = n THEN auths[2].id
                                   ELSE auths[1].id)],
                       times)
         IN /\ principal_id = "user-1"
            /\ authorisations = auths
            /\ actions = acts
            /\ authById = MapOf(auths)
            /\ actionById = MapOf(acts)
            /\ now = IF n = 0 THEN 0 ELSE times[n]
            /\ last = Call(IF n = 0 THEN "authorise" ELSE "recordAction",
                           IF n = 0 THEN auths[2].id ELSE acts[n].id, FALSE)
            /\ json = Null
            /\ result = Null

SpecFrequency == InitFrequency /\ [][NextDrift]_vars

\* a ledger with one authorisation, revoked or not, and up to MaxDriftActions
\* actions, inside or outside its domain, that claim it or one of two ids
\* no authorisation has
InitInflation ==
  \E n \in 0..MaxDriftActions, revoked \in BOOLEAN :
    \E picks \in [1..n -> {"europe", "asia"}
                            \X {generateId("a", 1), UnknownId, "auth-of-another-ledger"}] :
      LET granted == authorisedChain(<< DriftAuthInput >>, 0)
          auths == IF revoked
                   THEN revokedChain(granted, MapOf(granted), granted[1].id, 0)
                   ELSE granted
          acts == recordedChain(<< >>,
                    [i \in 1..n |->
                       [agent_id |-> "agent-1", authorisation_id |-> picks[i][2],
                        action_type |-> "book_flight",
                        description |-> "Book flight to Paris",
                        parameters |-> [domain |-> Str(picks[i][1])],
                        clearpath_trace_id |-> Null]],
                    [i \in 1..n |-> 1])
      IN /\ principal_id = "user-1"
         /\ authorisations = auths
         /\ actions = acts
         /\ authById = MapOf(auths)
         /\ actionById = MapOf(acts)
         /\ now = 1
         /\ last = Call(IF n > 0 THEN "recordAction"
                        ELSE IF revoked THEN "revoke" ELSE "authorise",
                        IF n > 0 THEN acts[n].id ELSE auths[1].id, FALSE)
         /\ json = Null
         /\ result = Null

SpecInflation == InitInflation /\ [][NextDrift]_vars

MaxBurst == 8

\* a ledger with one authorisation under a monetary_limit and a
\* domain_restriction, and actions recorded on three days, up to MaxBurst of
\* them on the third; the k-th action gives the amount (k - 2) * step, or
\* none when step is 0, and all actions name the same domain
InitSeverity ==
  \E limit \in {"500", "0", "-500"}, step \in {0, 100, 0 - 100},
     domain \in {"europe", "asia"},
     first \in {0, 1}, second \in {0, 2}, third \in 0..MaxBurst :
    LET n == first + second + third
        auths == authorisedChain(
                   << [DriftAuthInput EXCEPT
                         !.constraints =
                           << Constraint("monetary_limit", "Max", limit),
                              Constraint("domain_restriction", "Europe only",
                                         "europe,eu") >>] >>, 0)
        acts == recordedChain(<< >>,
                  [k \in 1..n |->
                     [agent_id |-> "agent-1", authorisation_id |-> auths[1].id,
                      action_type |-> "book_flight",
                      description |-> "Book flight to Paris",
                      parameters |->
                        IF step = 0 THEN [domain |-> Str(domain)]
                        ELSE [amount |-> Num((k - 2) * step), domain |-> Str(domain)],
                      clearpath_trace_id |-> Null]],
                  [k \in 1..n |-> IF k <= first THEN 0
                                   ELSE IF k <= first + second THEN 2 ELSE 4])
    IN /\ principal_id = "user-1"
       /\ authorisations = auths
       /\ actions = acts
       /\ authById = MapOf(auths)
       /\ actionById = MapOf(acts)
       /\ now = 4
       /\ last = Call(IF n = 0 THEN "authorise" ELSE "recordAction",
                      IF n = 0 THEN auths[1].id ELSE acts[n].id, FALSE)
       /\ json = Null
       /\ result = Null

SpecSeverity == InitSeverity /\ [][NextDrift]_vars

\* --------------------------------------------- a ledger that is consulted
\* a ledger with two authorisations, the first categorical or for an
\* emergency, with or without an expiry and revoked or not, and up to
\* MaxDriftActions actions recorded at the instant 1, outside the domain but
\* perhaps for the first, that claim the first authorisation or none
InitRead ==
  \E n \in 0..MaxDriftActions, revoked \in BOOLEAN,
     scope \in {"categorical", "emergency"},
     expiry \in {Null, Some(toISOString(0)), Some(toISOString(2))} :
    \E picks \in [1..n -> { << "europe", generateId("a", 1) >>,
                            << "asia", generateId("a", 1) >>,
                            << "asia", UnknownId >> }] :
      /\ \A i \in 2..n : picks[i][1] = "asia"
      /\ LET granted == authorisedChain(
                          << [DriftAuthInput EXCEPT !.expires_at = expiry,
                                                    !.scope = scope],
                             DriftAuthInput >>, 0)
             auths == IF revoked
                      THEN revokedChain(granted, MapOf(granted), granted[1].id, 1)
                      ELSE granted
             acts == recordedChain(<< >>,
                       [i \in 1..n |->
                          [agent_id |-> IF i = 1 THEN "agent-1" ELSE "agent-2",
                           authorisation_id |-> picks[i][2],
                           action_type |-> "book_flight",
                           description |-> "Book flight to Paris",
                           parameters |-> [domain |-> Str(picks[i][1])],
                           clearpath_trace_id |-> Null]],
                       [i \in 1..n |-> 1])
         IN /\ principal_id = "user-1"
            /\ authorisations = auths
            /\ actions = acts
            /\ authById = MapOf(auths)
            /\ actionById = MapOf(acts)
            /\ now = 1
            /\ last = Call(IF n > 0 THEN "recordAction"
                           ELSE IF revoked THEN "revoke" ELSE "authorise",
                           IF n > 0 THEN acts[n].id
                           ELSE IF revoked THEN auths[1].id ELSE auths[2].id, FALSE)
            /\ json = Null
            /\ result = Null

\* the read operation op is called with arg for the first time, or again
asked(op, arg) ==
  \/ last.op \in {"authorise", "revoke", "recordAction"}
  \/ last.op = op /\ last.arg = arg

\* the filters getActions is called with
ReadFilters ==
  { [key |-> "all", agent_id |-> Null, authorisation_id |-> Null, status |-> Null],
    [key |-> "agent", agent_id |-> Some("agent-2"), authorisation_id |-> Null,
     status |-> Null],
    [key |-> "authorisation", agent_id |-> Null,
     authorisation_id |-> Some(UnknownId), status |-> Some("")],
    [key |-> "status", agent_id |-> Null, authorisation_id |-> Null,
     status |-> Some("exceeded")] }

\* a read operation is called, and called again with the same arguments, a
\* day later or not; checkAllActions may also follow a checkConsent
NextRead ==
  \/ NextDay
  \/ \E id \in (DOMAIN actionById) \cup {UnknownId} :
       asked("checkConsent", id) /\ checkConsent(id)
  \/ (asked("checkAllActions", "") \/ last.op = "checkConsent") /\ checkAllActionsCall
  \/ asked("detectScopeCreep", "") /\ detectScopeCreepCall
  \/ asked("verify", "") /\ verifyCall
  \/ asked("getViolations", "") /\ getViolationsCall
  \/ asked("getActiveAuthorisations", "") /\ getActiveAuthorisationsCall
  \/ \E filters \in ReadFilters :
       asked("getActions", filters.key) /\ getActionsCall(filters)

SpecRead == InitRead /\ [][NextRead]_vars

\* ================================================================ claims
NoneRevoked == \A i \in 1..Len(authorisations) : ~authorisations[i].revoked

\* a step of revoke that replaced the entry at position idx of the chain
RevokeStepAt(idx) ==
  /\ last'.op = "revoke"
  /\ ~last'.threw
  /\ idx = findIndex(authorisations, last'.arg)
  /\ idx > 0
  /\ ~authorisations[idx].revoked
  /\ authorisations'[idx].revoked

\* C1: after any sequence of authorise, revoke and recordAction, every entry
\* of either chain carries the chain hash of its own previous_hash and of the
\* payload of its current fields, revoked and revoked_at included.
C1_HashOfCurrentPayload ==
  /\ \A i \in 1..Len(authorisations) :
       authorisations[i].hash =
         chainHash(authorisations[i].previous_hash,
                   authorisationPayload(authorisations[i]))
  /\ \A i \in 1..Len(actions) :
       actions[i].hash =
         chainHash(actions[i].previous_hash, actionPayload(actions[i]))

C1_Witness ==
  /\ \E i \in 1..Len(authorisations) : authorisations[i].revoked
  /\ Len(authorisations) >= 2
  /\ Len(actions) >= 1

\* C2: both chains are linked: the first previous_hash is the genesis
\* sentinel and every later previous_hash is the hash its predecessor
\* carries now.
C2_ChainsLinked ==
  /\ \A i \in 1..Len(authorisations) :
       authorisations[i].previous_hash =
         (IF i = 1 THEN GENESIS ELSE authorisations[i-1].hash)
  /\ \A i \in 1..Len(actions) :
       actions[i].previous_hash =
         (IF i = 1 THEN GENESIS ELSE actions[i-1].hash)

\* C3: verify() returns a result in every state; it is valid with counts 0
\* on the empty ledger, and valid with the two chain lengths as counts as
\* long as nothing but authorise and recordAction changed the ledger.
C3_VerifyAfterAppends ==
  /\ verify \in [valid : BOOLEAN,
                 authorisations_checked : 0..Len(authorisations),
                 actions_checked : 0..Len(actions)]
  /\ NoneRevoked =>
       verify = [valid |-> TRUE,
                 authorisations_checked |-> Len(authorisations),
                 actions_checked |-> Len(actions)]

C3_Witness ==
  /\ NoneRevoked
  /\ Len(authorisations) >= 2
  /\ Len(actions) >= 2
  /\ verify.valid

\* C5: from a valid ledger, the validity verify() reports after revoke(id) is
\* the same for every authorisation that is not yet revoked, the last of
\* the chain or an earlier one.
C5_RevokeSameAtEveryPosition ==
  verify.valid =>
    \A i, j \in 1..Len(authorisations) :
      (~authorisations[i].revoked /\ ~authorisations[j].revoked) =>
        verifyOf(revokedChain(authorisations, authById, authorisations[i].id, now),
                 actions).valid
        = verifyOf(revokedChain(authorisations, authById, authorisations[j].id, now),
                   actions).valid

ImportStep == last'.op = "fromJSON" /\ ~last'.threw /\ json # Null

\* C4: an edit of the content of a stored entry, or of the order of the
\* entries, that leaves the hashes as they were is detected: verify() of the
\* ledger imported from the edited snapshot reports valid = false.
C4_EveryContentEditDetected ==
  [][ (/\ ImportStep
       /\ last.op = "edit"
       /\ << authorisations', actions' >> # << authorisations, actions >>)
      => ~verify'.valid ]_vars

\* C7: export followed by import gives back the principal, both chains in
\* their order and the verify() result, for valid and for invalid ledgers.
C7_ExportImportRoundTrip ==
  LET doc == toJSONOf(principal_id, authorisations, actions)
      L == ledgerOfJson(doc)
  IN /\ ~schemaMismatch(doc)
     /\ L.principal_id = principal_id
     /\ L.authorisations = authorisations
     /\ L.actions = actions
     /\ verifyOf(L.authorisations, L.actions) = verify

C7_Witness ==
  /\ last.op = "fromJSON"
  /\ ~last.threw
  /\ json = Some(toJSONOf(principal_id, authorisations, actions))
  /\ ~verify.valid
  /\ \E i \in 1..Len(actions) : actions[i].clearpath_trace_id # Null
  /\ \E i \in 1..Len(actions) : actions[i].clearpath_trace_id = Null
  /\ \E i \in 1..Len(authorisations) : authorisations[i].revoked

\* C8: fromJSON throws, and leaves no ledger, exactly when the schema tag of
\* the snapshot is not 'CNL-1.0'; otherwise it returns the ledger that holds
\* the chains as the snapshot has them, broken or not.
C8_ImportChecksSchemaOnly ==
  [][ (last'.op = "fromJSON" /\ json # Null) =>
        /\ last'.threw = (Get(json[1], "schema") # JString("CNL-1.0"))
        /\ last'.threw => UNCHANGED ledgerVars
        /\ ~last'.threw =>
             /\ authorisations' =
                  [i \in 1..Len(Get(json[1], "authorisations").items) |->
                     authorisationOfJson(Get(json[1], "authorisations").items[i])]
             /\ actions' =
                  [i \in 1..Len(Get(json[1], "actions").items) |->
                     actionOfJson(Get(json[1], "actions").items[i])]
             /\ principal_id' = Get(json[1], "principal_id").s ]_vars

C8_Witness ==
  /\ last.op = "fromJSON"
  /\ ~last.threw
  /\ ~verify.valid
  /\ \E i \in 1..Len(authorisations) : authorisations[i].description = "TAMPERED"

C8_WitnessRejected ==
  /\ last.op = "fromJSON"
  /\ last.threw

\* the record and the authorisation the last checkConsent was about
CheckedAction == actionById[last.arg]

CheckedAuth == authById[CheckedAction.authorisation_id]

Checked == last.op = "checkConsent" /\ ~last.threw

\* the expiry of auth is an instant strictly before the instant of action
ExpiryBefore(auth, action) ==
  \E te \in Instants, ta \in Instants :
    /\ auth.expires_at = Some(toISOString(te))
    /\ action.timestamp = toISOString(ta)
    /\ te < ta

\* C9: when the authorisation an action refers to exists and is revoked, the
\* match is 'revoked' with the single critical violation 'revocation',
\* whatever its constraints, expiry and scope are.
C9_RevokedFirst ==
  (Checked /\ CheckedAction.authorisation_id \in DOMAIN authById
           /\ CheckedAuth.revoked) =>
    /\ result[1].status = "revoked"
    /\ Len(result[1].violations) = 1
    /\ result[1].violations[1].constraint_type = "revocation"
    /\ result[1].violations[1].severity = "critical"

C9_Witness ==
  /\ Checked
  /\ CheckedAction.authorisation_id \in DOMAIN authById
  /\ CheckedAuth.revoked
  /\ CheckedAuth.scope = "emergency"
  /\ ExpiryBefore(CheckedAuth, CheckedAction)
  /\ Len(CheckedAuth.constraints) > 0
  /\ result[1].status = "revoked"

\* C10: when the authorisation exists and is not revoked, the match is
\* 'expired', with the single critical violation 'expiry', exactly when the
\* authorisation has an expiry strictly before the timestamp of the action.
C10_ExpiredIffStrictlyBefore ==
  (Checked /\ CheckedAction.authorisation_id \in DOMAIN authById
           /\ ~CheckedAuth.revoked) =>
    /\ (result[1].status = "expired") = ExpiryBefore(CheckedAuth, CheckedAction)
    /\ (result[1].status = "expired") =>
         /\ Len(result[1].violations) = 1
         /\ result[1].violations[1].constraint_type = "expiry"
         /\ result[1].violations[1].severity = "critical"

C10_Witness ==
  /\ Checked
  /\ CheckedAction.authorisation_id \in DOMAIN authById
  /\ ~CheckedAuth.revoked
  /\ CheckedAuth.scope = "emergency"
  /\ Len(CheckedAuth.constraints) > 0
  /\ result[1].status = "expired"

\* the authorisation of the last checkConsent exists, is not revoked and has
\* no expiry before the action
CheckedInForce ==
  /\ Checked
  /\ CheckedAction.authorisation_id \in DOMAIN authById
  /\ ~CheckedAuth.revoked
  /\ ~ExpiryBefore(CheckedAuth, CheckedAction)

\* C11: when the authorisation exists, is not revoked, is not expired for the
\* action and has scope 'emergency', the match is 'pending_ratification'
\* with no violation, whatever the constraints and the parameters are.
C11_EmergencyPendingRatification ==
  (CheckedInForce /\ CheckedAuth.scope = "emergency") =>
    /\ result[1].status = "pending_ratification"
    /\ result[1].violations = << >>

C11_Witness ==
  /\ CheckedInForce
  /\ CheckedAuth.scope = "emergency"
  /\ Len(CheckedAuth.constraints) = 3
  /\ Param(CheckedAction.parameters, "amount") = Num(1200)
  /\ Param(CheckedAction.parameters, "domain") = Str("asia")
  /\ result[1].status = "pending_ratification"

\* the positions of the constraints of the checked authorisation that the
\* checked action breaches
CheckedBreaches ==
  { i \in 1..Len(CheckedAuth.constraints) :
      checkConstraint(CheckedAuth.constraints[i], CheckedAuth, CheckedAction,
                      buildMatcherContext(actions)) # Null }

\* the k-th smallest element of the set S of numbers
Nth(S, k) == CHOOSE i \in S : Cardinality({ j \in S : j <= i }) = k

\* C13: for an existing, non-revoked, non-expired, non-emergency
\* authorisation the violations are one per breached constraint, in the order
\* of the constraint list, and the status is 'within_bounds' exactly when
\* there is none, 'exceeded' otherwise.
C13_EveryConstraintEvaluated ==
  (CheckedInForce /\ CheckedAuth.scope # "emergency") =>
    /\ Len(result[1].violations) = Cardinality(CheckedBreaches)
    /\ \A k \in 1..Len(result[1].violations) :
         result[1].violations[k] =
           checkConstraint(CheckedAuth.constraints[Nth(CheckedBreaches, k)],
                           CheckedAuth, CheckedAction, buildMatcherContext(actions))[1]
    /\ (result[1].status = "within_bounds") = (result[1].violations = << >>)
    /\ (result[1].status = "exceeded") = (result[1].violations # << >>)

C13_Witness ==
  /\ CheckedInForce
  /\ CheckedAuth.scope # "emergency"
  /\ result[1].status = "exceeded"
  /\ [k \in 1..Len(result[1].violations) |-> result[1].violations[k].constraint_type]
       = << "monetary_limit", "domain_restriction", "approval_required" >>

C13_WitnessWithinBounds ==
  /\ CheckedInForce
  /\ CheckedAuth.scope # "emergency"
  /\ Len(CheckedAuth.constraints) > 0
  /\ result[1].status = "within_bounds"

\* a step that is a call of op: the clock does not move during a call
CallStep(op) == last'.op = op /\ now' = now

\* C12: recordAction never throws, whatever authorisation the action claims:
\* it appends the record to the action chain and puts it in the index; and
\* checkConsent on a record whose authorisation the ledger does not have is
\* 'exceeded' with the single critical violation 'authorisation'.
C12_UnknownAuthorisationRecorded ==
  [][ /\ CallStep("recordAction") =>
           /\ ~last'.threw
           /\ Len(actions') = Len(actions) + 1
           /\ SubSeq(actions', 1, Len(actions)) = actions
           /\ actions'[Len(actions')].id = last'.arg
           /\ last'.arg \notin DOMAIN actionById
           /\ DOMAIN actionById' = (DOMAIN actionById) \cup {last'.arg}
           /\ actionById'[last'.arg] = actions'[Len(actions')]
      /\ (/\ CallStep("checkConsent")
          /\ last'.arg \in DOMAIN actionById
          /\ actionById[last'.arg].authorisation_id \notin DOMAIN authById) =>
           /\ ~last'.threw
           /\ result'[1].status = "exceeded"
           /\ Len(result'[1].violations) = 1
           /\ result'[1].violations[1].constraint_type = "authorisation"
           /\ result'[1].violations[1].severity = "critical" ]_vars

C12_Witness ==
  /\ Checked
  /\ CheckedAction.authorisation_id = UnknownId
  /\ Len(authorisations) >= 1
  /\ result[1].status = "exceeded"
  /\ result[1].violations[1].constraint_type = "authorisation"

\* the 24-hour bucket of a timestamp
Bucket(timestamp) == DateParse(timestamp) \div 2

\* the number of actions that claim the authorisation id in the bucket b
CountInBucket(id, b) ==
  Cardinality({ i \in 1..Len(actions) :
                  /\ actions[i].authorisation_id = id
                  /\ Bucket(actions[i].timestamp) = b })

\* C15: the count checked against a frequency_limit is taken per 24-hour
\* bucket: an authorisation whose actions stay within the limit in every
\* single bucket gets no frequency_limit violation.
C15_FrequencyCountedPerBucket ==
  (/\ CheckedInForce
   /\ CheckedAuth.scope # "emergency"
   /\ \A i \in 1..Len(CheckedAuth.constraints) :
        CheckedAuth.constraints[i].type = "frequency_limit" =>
          \A t \in Instants :
            CountInBucket(CheckedAuth.id, t \div 2)
              <= parseNumber(Str(CheckedAuth.constraints[i].parameter))[1]) =>
    \A k \in 1..Len(result[1].violations) :
      result[1].violations[k].constraint_type # "frequency_limit"

\* C17: revoke of an id the authorisation index does not have, and
\* checkConsent of an id the action index does not have, throw and leave the
\* chains and the indexes as they were.
C17_NotFoundLeavesLedger ==
  [][ /\ (CallStep("revoke") /\ last'.arg \notin DOMAIN authById) =>
           (last'.threw /\ UNCHANGED ledgerVars)
      /\ (CallStep("checkConsent") /\ last'.arg \notin DOMAIN actionById) =>
           (last'.threw /\ UNCHANGED ledgerVars /\ UNCHANGED result) ]_vars

C17_Witness ==
  /\ last = Call("checkConsent", UnknownId, TRUE)
  /\ Len(actions) >= 1
  /\ Len(authorisations) >= 1

C17_WitnessRevoke ==
  /\ last = Call("revoke", UnknownId, TRUE)
  /\ Len(actions) >= 1
  /\ Len(authorisations) >= 1

\* the number a limit text denotes, <<>> when it denotes none
LimitNumber(text) ==
  CASE text = "500" -> Some(500)
    [] text = "0" -> Some(0)
    [] text = "-500" -> Some(0 - 500)
    [] OTHER -> Null

\* the number a parameter value denotes, <<>> when it denotes none
ValueNumber(v) ==
  CASE v.t = "number" -> Some(v.n)
    [] v = Str("600") -> Some(600)
    [] OTHER -> Null

\* the value of the first of the keys amount, value, cost that parameters
\* gives with a value other than null
MonetaryValue(parameters) ==
  LET given(k) == k \in DOMAIN parameters /\ parameters[k] # NullV
  IN IF given("amount") THEN ValueNumber(parameters["amount"])
     ELSE IF given("value") THEN ValueNumber(parameters["value"])
     ELSE IF given("cost") THEN ValueNumber(parameters["cost"])
     ELSE Null

\* C14: a monetary_limit constraint of limit L gives a violation exactly when
\* the monetary value v of the action (the first given of amount, value,
\* cost) is a number and v > L; the violation is critical when v > 1.5 L and
\* major otherwise; a missing or unparseable value or limit gives none.
C14_MonetaryLimit ==
  Checked =>
    LET L == LimitNumber(CheckedAuth.constraints[1].parameter)
        v == MonetaryValue(CheckedAction.parameters)
        breached == L # Null /\ v # Null /\ v[1] > L[1]
    IN /\ breached = (result[1].violations # << >>)
       /\ breached =>
            /\ Len(result[1].violations) = 1
            /\ result[1].violations[1].constraint_type = "monetary_limit"
            /\ result[1].violations[1].actual = ToString(v[1])
            /\ result[1].violations[1].severity =
                 (IF 2 * v[1] > 3 * L[1] THEN "critical" ELSE "major")

C14_Witness ==
  /\ Checked
  /\ CheckedAuth.constraints[1].parameter = "500"
  /\ CheckedAction.parameters = [amount |-> Num(600)]
  /\ result[1].violations[1].severity = "major"

C14_WitnessCritical ==
  /\ Checked
  /\ CheckedAuth.constraints[1].parameter = "500"
  /\ CheckedAction.parameters = [amount |-> Num(1200)]
  /\ result[1].violations[1].severity = "critical"

C14_WitnessNone ==
  /\ Checked
  /\ CheckedAuth.constraints[1].parameter = "500"
  /\ CheckedAction.parameters = [amount |-> Num(320)]
  /\ result[1].status = "within_bounds"

C14_WitnessLaterKey ==
  /\ Checked
  /\ CheckedAuth.constraints[1].parameter = "500"
  /\ CheckedAction.parameters = [amount |-> NullV, value |-> Num(600)]
  /\ result[1].status = "exceeded"

\* C16: revoke of an authorisation that is revoked already leaves the whole
\* ledger as it is, and an entry, once revoked, is the same entry in every
\* later state: revoked, with the revoked_at and the hash of the first
\* revocation.
C16_RevokeIdempotent ==
  [][ /\ (/\ CallStep("revoke")
          /\ last'.arg \in DOMAIN authById
          /\ authById[last'.arg].revoked) =>
           (~last'.threw /\ UNCHANGED ledgerVars)
      /\ \A i \in 1..Len(authorisations) :
           authorisations[i].revoked =>
             /\ i <= Len(authorisations')
             /\ authorisations'[i] = authorisations[i]
             /\ authById'[authorisations[i].id] = authById[authorisations[i].id] ]_vars

\* the last call is a revoke of an authorisation that was revoked before a
\* later entry was appended
C16_Witness ==
  /\ last.op = "revoke"
  /\ ~last.threw
  /\ authById[last.arg].revoked
  /\ \E j \in 1..Len(authorisations) :
       DateParse(authorisations[j].timestamp) > DateParse(authById[last.arg].revoked_at[1])

\* the positions of the chain auths whose entry is not revoked and has no
\* expiry, or one strictly after the instant t
InForce(auths, t) ==
  { i \in 1..Len(auths) :
      /\ ~auths[i].revoked
      /\ \/ auths[i].expires_at \in {Null, Some("")}
         \/ \E te \in Instants :
              auths[i].expires_at = Some(toISOString(te)) /\ te > t }

\* the result of getActiveAuthorisations is the entries in force, in chain
\* order
ActiveIsInForce(auths, t) ==
  LET active == getActiveAuthorisations(auths, t)
  IN /\ Len(active) = Cardinality(InForce(auths, t))
     /\ \A k \in 1..Len(active) : active[k] = auths[Nth(InForce(auths, t), k)]

\* C18: getActiveAuthorisations returns, in chain order, exactly the
\* authorisations that are not revoked and have no expiry or an expiry
\* strictly after the current time; an authorisation that is revoked is in
\* the result of no later call.
C18_ActiveAuthorisations ==
  [][ /\ ActiveIsInForce(authorisations, now)
      /\ ActiveIsInForce(authorisations', now')
      /\ \A i \in 1..Len(authorisations) :
           authorisations[i].revoked =>
             \A k \in 1..Len(getActiveAuthorisations(authorisations', now')) :
               getActiveAuthorisations(authorisations', now')[k].id
                 # authorisations[i].id ]_vars

\* after a revoke, one authorisation is active with an expiry still to come
C18_Witness ==
  /\ last.op = "revoke"
  /\ ~last.threw
  /\ authById[last.arg].expires_at = Null
  /\ Len(authorisations) = 2
  /\ Len(getActiveAuthorisations(authorisations, now)) = 1
  /\ getActiveAuthorisations(authorisations, now)[1].expires_at = Some(toISOString(now + 1))

\* the clock is at the expiry of an authorisation that is not revoked
C18_WitnessAtExpiry ==
  /\ Len(authorisations) = 2
  /\ \E i \in 1..2 : /\ ~authorisations[i].revoked
                      /\ authorisations[i].expires_at = Some(toISOString(now))
  /\ Len(getActiveAuthorisations(authorisations, now)) = 1

\* the last call is detectScopeCreep, and result holds its patterns
Detected == last.op = "detectScopeCreep"

\* C19: every pattern detectScopeCreep returns has at least three evidence
\* identifiers.
C19_ThreeEvidenceIds ==
  Detected =>
    \A k \in 1..Len(result[1]) : Len(result[1][k].evidence_ids) >= 3

C19_Witness ==
  /\ Detected
  /\ \E k \in 1..Len(result[1]) : result[1][k].pattern_type = "frequency_escalation"
  /\ \E k \in 1..Len(result[1]) : result[1][k].pattern_type = "authority_inflation"

\* the number of recorded actions that claim the authorisation id
Claiming(id) ==
  Cardinality({ i \in 1..Len(actions) : actions[i].authorisation_id = id })

\* C20: no pattern detectScopeCreep returns has among its evidence an action
\* that claims an authorisation of the ledger which fewer than three
\* recorded actions claim.
C20_NoPatternUnderThreeActions ==
  Detected =>
    \A i \in 1..Len(authorisations) :
      Claiming(authorisations[i].id) < 3 =>
        \A k \in 1..Len(result[1]) :
          \A e \in 1..Len(result[1][k].evidence_ids) :
            actionById[result[1][k].evidence_ids[e]].authorisation_id
              # authorisations[i].id

\* a pattern is returned while an authorisation has one or two actions, one
\* of them outside its domain
C20_Witness ==
  /\ Detected
  /\ result[1] # << >>
  /\ \E i \in 1..Len(authorisations) :
       /\ Claiming(authorisations[i].id) \in 1..2
       /\ \E j \in 1..Len(actions) :
            /\ actions[j].authorisation_id = authorisations[i].id
            /\ Param(actions[j].parameters, "domain") = Str("asia")

C20_WitnessGradual ==
  /\ Detected
  /\ \E k \in 1..Len(result[1]) : result[1][k].pattern_type = "gradual_expansion"

C20_WitnessDomain ==
  /\ Detected
  /\ \E k \in 1..Len(result[1]) : result[1][k].pattern_type = "domain_drift"
\* the patterns of one type among those the last detectScopeCreep returned
PatternsOf(type) == SelectSeq(result[1], LAMBDA p : p.pattern_type = type)

\* the indexes of the recorded actions that claim id and give an amount a
\* number can be read from
Valued(id) ==
  { i \in 1..Len(actions) :
      /\ actions[i].authorisation_id = id
      /\ MonetaryValue(actions[i].parameters) # Null }

\* the amount of the action at i
AmountAt(i) == MonetaryValue(actions[i].parameters)[1]

\* j follows i immediately among the actions of S taken by timestamp
NextByTime(S, i, j) ==
  /\ DateParse(actions[i].timestamp) < DateParse(actions[j].timestamp)
  /\ ~\E k \in S : /\ DateParse(actions[i].timestamp) < DateParse(actions[k].timestamp)
                   /\ DateParse(actions[k].timestamp) < DateParse(actions[j].timestamp)

\* a / L < b / L; no ratio is defined for L = 0
RatioLess(a, b, L) ==
  IF L > 0 THEN a < b ELSE IF L < 0 THEN a > b ELSE FALSE

\* the last of the actions of S by timestamp
LastByTime(S) ==
  CHOOSE i \in S : \A k \in S :
    DateParse(actions[k].timestamp) <= DateParse(actions[i].timestamp)

\* at least three actions of the authorisation give an amount, the ratios
\* amount / L rise strictly from each to the next and the last is >= 0.7
CreepsTowardLimit(auth) ==
  LET L == LimitNumber(findConstraint(auth, "monetary_limit")[1].parameter)[1]
      S == Valued(auth.id)
  IN /\ Cardinality(S) >= 3
     /\ \A i, j \in S : NextByTime(S, i, j) => RatioLess(AmountAt(i), AmountAt(j), L)
     /\ IF L > 0 THEN 10 * AmountAt(LastByTime(S)) >= 7 * L
        ELSE L < 0 /\ 10 * AmountAt(LastByTime(S)) <= 7 * L

\* C21: for an authorisation with a monetary_limit L, detectScopeCreep
\* reports a gradual_expansion pattern if and only if at least three of its
\* actions give a parseable amount and, in timestamp order, the ratios
\* amount / L rise strictly across every consecutive pair and the last ratio
\* is at least 0.7.
C21_GradualExpansionIff ==
  Detected =>
    \A a \in 1..Len(authorisations) :
      LET auth == authorisations[a]
          c == findConstraint(auth, "monetary_limit")
      IN (c # Null /\ LimitNumber(c[1].parameter) # Null) =>
           ( (\E k \in 1..Len(PatternsOf("gradual_expansion")) :
                actionById[PatternsOf("gradual_expansion")[k].evidence_ids[1]]
                  .authorisation_id = auth.id)
             <=> CreepsTowardLimit(auth) )
\* the buckets in which an action that claims id was recorded
NonEmptyBuckets(id) ==
  { b \in 0..(MaxTime + 5) : CountInBucket(id, b) > 0 }

\* the actions of the authorisation occupy at least three buckets of 24
\* hours, and each non-empty bucket holds more than the one before it
EscalatesByDay(id) ==
  /\ Cardinality(NonEmptyBuckets(id)) >= 3
  /\ \A b, c \in NonEmptyBuckets(id) :
       (b < c /\ ~\E d \in NonEmptyBuckets(id) : b < d /\ d < c)
         => CountInBucket(id, b) < CountInBucket(id, c)

\* a pattern of the type is returned whose first evidence claims id
ReportedFor(type, id) ==
  \E k \in 1..Len(PatternsOf(type)) :
    actionById[PatternsOf(type)[k].evidence_ids[1]].authorisation_id = id

\* C22: for an authorisation of the ledger, detectScopeCreep reports a
\* frequency_escalation pattern if and only if its actions occupy at least
\* three 24-hour buckets and the counts rise strictly from each non-empty
\* bucket to the next.
C22_FrequencyEscalationIff ==
  Detected =>
    \A a \in 1..Len(authorisations) :
      ReportedFor("frequency_escalation", authorisations[a].id)
        <=> EscalatesByDay(authorisations[a].id)

\* reported with an empty day between the buckets, and with the two actions
\* of one day recorded at different hours
C22_Witness ==
  /\ Detected
  /\ ReportedFor("frequency_escalation", authorisations[1].id)
  /\ CountInBucket(authorisations[1].id, 1) = 0

C22_WitnessHalfDays ==
  /\ Detected
  /\ ReportedFor("frequency_escalation", authorisations[1].id)
  /\ \E i, j \in 1..Len(actions) :
       /\ actions[i].timestamp # actions[j].timestamp
       /\ Bucket(actions[i].timestamp) = Bucket(actions[j].timestamp)

\* three buckets whose counts do not rise: nothing is reported
C22_WitnessFlat ==
  /\ Detected
  /\ Cardinality(NonEmptyBuckets(authorisations[1].id)) >= 3
  /\ ~ReportedFor("frequency_escalation", authorisations[1].id)
\* the status checkAllActions gives the action at i in the current ledger
StatusAt(i) == checkAllActions(actions, authById, now)[i].status

\* the indexes of the recorded actions that fail and claim an id that no
\* authorisation of the ledger has
Orphaned ==
  { i \in 1..Len(actions) :
      /\ StatusAt(i) \in {"exceeded", "revoked", "expired"}
      /\ \A a \in 1..Len(authorisations) :
           authorisations[a].id # actions[i].authorisation_id }

C23_WitnessExisting ==
  /\ Detected
  /\ PatternsOf("authority_inflation") = << >>
  /\ Cardinality(Orphaned) = 2
  /\ \E i \in 1..Len(actions) : StatusAt(i) = "revoked"
\* the operations that only read the ledger
ReadOps ==
  { "checkConsent", "checkAllActions", "detectScopeCreep", "verify", "getActions",
    "getViolations", "getActiveAuthorisations" }

\* what a match says but for the instant it was made at
Verdict(m) == [action_id |-> m.action_id, status |-> m.status, violations |-> m.violations]

\* what the result res of the read operation op says: statuses and violations
\* of matches, types and evidence of patterns, the validity verify found, the
\* actions getActions kept; the entries getActiveAuthorisations returns depend
\* on the clock and are left out
Said(op, res) ==
  CASE op = "checkConsent" -> Verdict(res)
    [] op \in {"checkAllActions", "getViolations"} ->
         [i \in 1..Len(res) |-> Verdict(res[i])]
    [] op = "detectScopeCreep" ->
         [i \in 1..Len(res) |->
            [pattern_type |-> res[i].pattern_type, evidence_ids |-> res[i].evidence_ids]]
    [] op \in {"verify", "getActions"} -> res
    [] OTHER -> << >>

C24_WitnessPatterns ==
  /\ Detected
  /\ now = 3
  /\ result[1] # << >>
\* the entry after differs from the entry before in nothing but the fields
\* revoked, revoked_at and hash
RevokedVersionOf(after, before) ==
  [after EXCEPT !.revoked = before.revoked, !.revoked_at = before.revoked_at,
                !.hash = before.hash] = before

\* C25: no operation removes or reorders entries of a chain; authorise and
\* revoke leave the action chain as it was and recordAction leaves the
\* authorisation chain as it was; a recorded action never changes; an
\* authorisation entry changes only through revoke, and then only in its
\* fields revoked, revoked_at and hash.
C25_ChainsAppendOnly ==
  [][ /\ Len(authorisations') >= Len(authorisations)
      /\ Len(actions') >= Len(actions)
      /\ \A i \in 1..Len(actions) : actions'[i] = actions[i]
      /\ \A i \in 1..Len(authorisations) :
           \/ authorisations'[i] = authorisations[i]
           \/ /\ CallStep("revoke")
              /\ authorisations[i].id = last'.arg
              /\ RevokedVersionOf(authorisations'[i], authorisations[i])
      /\ (CallStep("authorise") \/ CallStep("revoke")) => actions' = actions
      /\ CallStep("recordAction") => authorisations' = authorisations ]_vars

\* an authorisation that is not the last was revoked in a ledger with actions
C25_Witness ==
  /\ last.op = "revoke"
  /\ ~last.threw
  /\ Len(authorisations) >= 2
  /\ authorisations[1].id = last.arg
  /\ authorisations[1].revoked
  /\ authorisations[1].revoked_at = Some(toISOString(now))
  /\ actions # << >>
\* C26: every pattern detectScopeCreep returns has a severity score between
\* 0 and 1 (in thousandths), whatever the limit, zero or negative, and
\* however many actions a bucket holds or lie outside the domain.
C26_SeverityInUnitInterval ==
  Detected =>
    \A k \in 1..Len(result[1]) :
      result[1][k].severity >= 0 /\ result[1][k].severity <= 1000

\* the scores of a full bucket and of many actions outside the domain are
\* capped
C26_Witness ==
  /\ Detected
  /\ \E k \in 1..Len(PatternsOf("frequency_escalation")) :
       /\ PatternsOf("frequency_escalation")[k].severity = 900
       /\ CountInBucket(authorisations[1].id, 2) >= 8
  /\ \E k \in 1..Len(PatternsOf("domain_drift")) :
       /\ PatternsOf("domain_drift")[k].severity = 900
       /\ Len(PatternsOf("domain_drift")[k].evidence_ids) >= 7
  /\ \E k \in 1..Len(PatternsOf("gradual_expansion")) :
       PatternsOf("gradual_expansion")[k].severity = 900

\* a pattern under a limit of zero
C26_WitnessZero ==
  /\ Detected
  /\ authorisations[1].constraints[1].parameter = "0"
  /\ PatternsOf("gradual_expansion") # << >>

\* a pattern under a negative limit
C26_WitnessNegative ==
  /\ Detected
  /\ authorisations[1].constraints[1].parameter = "-500"
  /\ PatternsOf("gradual_expansion") # << >>
\* C27: checkConsent gives the status 'revoked' only to an action performed
\* after the revocation: an action recorded before its authorisation was
\* revoked is not given 'revoked'.
C27_RevokedOnlyAfterRevocation ==
  (/\ Checked
   /\ CheckedAction.authorisation_id \in DOMAIN authById
   /\ CheckedAuth.revoked
   /\ DateParse(CheckedAction.timestamp) < DateParse(CheckedAuth.revoked_at[1])) =>
    result[1].status # "revoked"

\* the index has exactly the ids of the chain, gives each id the entry stored
\* at its position, and no two positions of the chain share an id
IndexAgrees(chain, index) ==
  /\ DOMAIN index = { chain[i].id : i \in 1..Len(chain) }
  /\ \A i \in 1..Len(chain) : index[chain[i].id] = chain[i]
  /\ \A i, j \in 1..Len(chain) : chain[i].id = chain[j].id => i = j

IndexesAgree ==
  /\ IndexAgrees(authorisations, authById)
  /\ IndexAgrees(actions, actionById)

\* the snapshot text is what toJSON gives for the ledger as it is
SnapshotOfLedger ==
  /\ json # Null
  /\ json[1] = toJSONOf(principal_id, authorisations, actions)

\* C28: in every state reached by authorise, revoke and recordAction, and in
\* every ledger fromJSON builds from the snapshot exported of such a ledger,
\* both indexes hold exactly the ids of their chains, map each id to the entry
\* at its position in the chain (the revoked version after a revoke), and no
\* two entries of a chain share an id.
C28_IndexesAgreeWithChains ==
  /\ [](json = Null => IndexesAgree)
  /\ [][(/\ last'.op = "fromJSON"
         /\ ~last'.threw
         /\ SnapshotOfLedger
         /\ IndexesAgree) => IndexesAgree']_vars

C28_Witness ==
  /\ last.op = "fromJSON"
  /\ ~last.threw
  /\ SnapshotOfLedger
  /\ Len(authorisations) = MaxAuths
  /\ Len(actions) >= 1
  /\ \E i \in 1..Len(authorisations) :
       authorisations[i].revoked /\ authById[authorisations[i].id].revoked
  /\ IndexesAgree

\* the violations of one constraint type the matcher finds in the ledger, in
\* the order of the action chain
ViolationsOfType(type) ==
  LET matches == checkAllActions(actions, authById, now)
      perAction(ms) ==
        Concat([i \in 1..Len(ms) |->
                  SelectSeq(ms[i].violations, LAMBDA v : v.constraint_type = type)])
  IN perAction(matches)

\* C29: detectScopeCreep of the ledger never returns a pattern of type
\* constraint_erosion, however many violations of one constraint type the
\* ledger holds: the severities the matcher gives one constraint type never
\* climb strictly across three violations.
C29_NoConstraintErosion ==
  (last.op = "detectScopeCreep" /\ result # Null) =>
    PatternsOf("constraint_erosion") = << >>

\* detectScopeCreep has run on a ledger with at least three monetary_limit
\* violations, a major one followed by a critical one among them
C29_Witness ==
  /\ last.op = "detectScopeCreep"
  /\ result # Null
  /\ LET vs == ViolationsOfType("monetary_limit")
     IN /\ Len(vs) >= MIN_DATA_POINTS
        /\ \E i \in 1..(Len(vs) - 1) :
             vs[i].severity = "major" /\ vs[i + 1].severity = "critical"
  /\ Len(ViolationsOfType("domain_restriction")) >= MIN_DATA_POINTS
  /\ PatternsOf("constraint_erosion") = << >>

\* the status of a match is one the matcher gives, and its violations are
\* those of that status
StatusFitsViolations(m) ==
  /\ m.status \in {"exceeded", "within_bounds", "revoked", "expired",
                   "pending_ratification"}
  /\ m.status \in {"within_bounds", "pending_ratification"} => m.violations = << >>
  /\ m.status = "exceeded" => Len(m.violations) >= 1
  /\ m.status \in {"revoked", "expired"} =>
       /\ Len(m.violations) = 1
       /\ m.violations[1].severity = "critical"

\* C30: every match of checkConsent and of checkAllActions has one of the
\* statuses exceeded, within_bounds, revoked, expired, pending_ratification,
\* never 'authorised', with no violation for within_bounds and
\* pending_ratification, at least one for exceeded and exactly one, critical,
\* for revoked and expired; checkAllActions returns one match per action of
\* the chain, in chain order, with the status and the violations checkConsent
\* gives that action.
C30_MatchesAreConsistent ==
  /\ [](Checked => StatusFitsViolations(result[1]))
  /\ [](last.op = "checkAllActions" =>
          /\ Len(result[1]) = Len(actions)
          /\ \A i \in 1..Len(actions) :
               /\ result[1][i].action_id = actions[i].id
               /\ StatusFitsViolations(result[1][i]))
  /\ [][(/\ Checked
         /\ last'.op = "checkAllActions"
         /\ now' = now) =>
          \A i \in 1..Len(actions) :
            actions[i].id = last.arg => Verdict(result'[1][i]) = Verdict(result[1])]_vars

\* checkAllActions on a ledger whose emergency authorisation leaves some
\* actions pending and whose other actions claim no authorisation
C30_Witness ==
  /\ last.op = "checkAllActions"
  /\ Len(result[1]) >= 2
  /\ \E i, j \in 1..Len(result[1]) :
       /\ result[1][i].status = "pending_ratification"
       /\ result[1][j].status = "exceeded"
       /\ result[1][j].authorisation_id = UnknownId

\* checkAllActions on a ledger whose first authorisation is revoked
C30_WitnessRevoked ==
  /\ last.op = "checkAllActions"
  /\ \E i, j \in 1..Len(result[1]) :
       /\ result[1][i].status = "revoked"
       /\ result[1][j].status = "exceeded"

\* checkConsent found an action within bounds, and another expired
C30_WitnessWithin == Checked /\ result[1].status = "within_bounds"

C30_WitnessExpired == Checked /\ result[1].status = "expired"

====
